---- MODULE Spec2Model ----
(***************************************************************************)
(* A model of rit, a from-scratch version-control engine: the content-     *)
(* addressable object store, the tree and commit encodings, the staging    *)
(* index and the tree builder.                                             *)
(*                                                                         *)
(* Text and bytes are sequences of byte values 0..255 (ASCII codes), so    *)
(* that formatting, parsing, scanning and byte-wise comparison are         *)
(* computed the way the code computes them.                                *)
(***************************************************************************)
EXTENDS Integers, Sequences, FiniteSets, TLC

VARIABLES
    objects_dir,  \* .rit/objects: [dirs: bucket directories, files: path -> file bytes]
    puts,         \* history: (type, content) -> address returned by the first put
    ret,          \* the last operation and what it returned
    tree,         \* Tree.entries of the tree under construction
    tree_io,      \* its history: entries as added, sorted?, serialized bytes, parse result
    commit_io,    \* a Commit, its serialized text and what parsing the text gave
    index,        \* Index.entries: path -> IndexEntry
    build,        \* tree builds so far: how many, the last one's index and outcome
    worktree,     \* files of the working directory: path -> content
    head_file,    \* text of .rit/HEAD
    refs,         \* files under .rit/refs: ref path -> text
    author_io,    \* an author text and what Author::parse made of it
    walk,         \* traverse_commits: its locals, and the addresses it has read
    collect,      \* collect_all_commits: its locals
    race,         \* two processes inside store_object: the call and each one's position
    diff_io       \* two line sequences and the edit script myers_diff gave for them

vars == <<objects_dir, puts, ret, tree, tree_io, commit_io,
          index, build, worktree, head_file, refs, author_io, walk, collect,
          race, diff_io>>

storeVars == <<objects_dir, puts, ret>>

treeVars == <<tree, tree_io>>

commitVars == <<commit_io, author_io>>

repoVars == <<index, build, worktree, head_file, refs>>

graphVars == <<walk, collect>>

raceVars == <<race>>

diffVars == <<diff_io>>

(***************************************************************************)
(* Bytes and text                                                          *)
(***************************************************************************)
NUL == 0
SP == 32
ZERO == 48

STR_blob == <<98, 108, 111, 98>>
STR_tree == <<116, 114, 101, 101>>
\* "ref: " and "refs/heads/main"
STR_ref_colon == <<114, 101, 102, 58, SP>>
STR_refs_heads_main ==
    <<114, 101, 102, 115, 47, 104, 101, 97, 100, 115, 47, 109, 97, 105, 110>>
STR_commit == <<99, 111, 109, 109, 105, 116>>

\* The first position >= i of byte b in s, 0 when there is none
\* (Iterator::position, str::find).
PositionFrom(s, b, i) ==
    LET hits == {k \in i..Len(s) : s[k] = b}
    IN  IF hits = {} THEN 0 ELSE CHOOSE k \in hits : \A j \in hits : k <= j

Position(s, b) == PositionFrom(s, b, 1)

\* format!("{}", n) for an unsigned integer.
RECURSIVE ToDecimal(_)
ToDecimal(n) ==
    IF n < 10 THEN <<ZERO + n>>
    ELSE Append(ToDecimal(n \div 10), ZERO + (n % 10))

IsDigit(b) == b >= ZERO /\ b <= ZERO + 9

RECURSIVE DigitsValue(_, _)
DigitsValue(s, k) ==
    IF k = 0 THEN 0 ELSE DigitsValue(s, k - 1) * 10 + (s[k] - ZERO)

\* str::parse::<usize>: an optional '+', then one or more digits; -1 is Err.
ParseUsize(s) ==
    LET d == IF Len(s) > 0 /\ s[1] = 43 THEN SubSeq(s, 2, Len(s)) ELSE s
    IN  IF Len(d) = 0 \/ \E i \in 1..Len(d) : ~IsDigit(d[i]) THEN -1
        ELSE DigitsValue(d, Len(d))

HexDigit(n) == IF n < 10 THEN ZERO + n ELSE 87 + n

\* hex::encode: two lowercase hex characters per byte.
hex_encode(bytes) ==
    [i \in 1..(2 * Len(bytes)) |->
        IF i % 2 = 1 THEN HexDigit(bytes[(i + 1) \div 2] \div 16)
        ELSE HexDigit(bytes[i \div 2] % 16)]

\* The value of a hex character, either case; -1 when it is none.
HexValue(c) ==
    IF c >= 48 /\ c <= 57 THEN c - 48
    ELSE IF c >= 97 /\ c <= 102 THEN c - 87
    ELSE IF c >= 65 /\ c <= 70 THEN c - 55
    ELSE -1

\* hex::decode: Err on an odd length or a character that is no hex digit.
hex_decode(s) ==
    IF Len(s) % 2 = 1 \/ \E i \in 1..Len(s) : HexValue(s[i]) < 0
    THEN [ok |-> FALSE, bytes |-> <<>>]
    ELSE [ok |-> TRUE,
          bytes |-> [i \in 1..(Len(s) \div 2) |->
                        16 * HexValue(s[2 * i - 1]) + HexValue(s[2 * i])]]

IsLowerHex(c) == (c >= 48 /\ c <= 57) \/ (c >= 97 /\ c <= 102)

(***************************************************************************)
(* SHA-1 and zlib, the two library codecs                                  *)
(***************************************************************************)
DIGEST_LEN == 20

\* One term of a checksum: byte i of s, weighted by its position.
WeightedByte(s, i, a, c, m) ==
    IF i > Len(s) THEN 0 ELSE (s[i] + 1) * ((i * i + a * i + c) % m)

\* The position-weighted sum of s[i..] modulo m, eight bytes at a step.
RECURSIVE Checksum(_, _, _, _, _)
Checksum(s, a, c, m, i) ==
    IF i > Len(s) THEN 0
    ELSE ( WeightedByte(s, i, a, c, m) + WeightedByte(s, i + 1, a, c, m)
         + WeightedByte(s, i + 2, a, c, m) + WeightedByte(s, i + 3, a, c, m)
         + WeightedByte(s, i + 4, a, c, m) + WeightedByte(s, i + 5, a, c, m)
         + WeightedByte(s, i + 6, a, c, m) + WeightedByte(s, i + 7, a, c, m)
         + Checksum(s, a, c, m, i + 8) ) % m

\* Sha1::new/update/finalize: a deterministic 20-byte digest of the input.
\* The real compression function is replaced by four checksums spread over
\* the 20 bytes; NoCollision checks on every run that the digest is
\* collision-free on the inputs the model stores.
Sha1Digest(h1, h2, h3, h4, mix) ==
    << h1 % 256, h1 \div 256, h2 % 256, h2 \div 256,
       h3 % 256, h3 \div 256, h4 % 256, h4 \div 256,
       mix, (mix + h1) % 256, (mix + h2) % 256, (mix + h3) % 256,
       (mix + h4) % 256, (h1 + h2) % 256, (h2 + h3) % 256, (h3 + h4) % 256,
       (h1 + h3) % 256, (h2 + h4) % 256, (h1 + h4) % 256, (h1 + 2 * mix) % 256 >>

Sha1Mixed(h1, h2, h3, h4) == Sha1Digest(h1, h2, h3, h4, (h1 + h2 + h3 + h4) % 251)

Sha1(bytes) ==
    Sha1Mixed((Checksum(bytes, 257, 1, 46337, 1) + Len(bytes)) % 46337,
              (Checksum(bytes, 263, 7, 46327, 1) + 3 * Len(bytes)) % 46327,
              (Checksum(bytes, 269, 11, 46309, 1) + 5 * Len(bytes)) % 46309,
              (Checksum(bytes, 271, 13, 46307, 1) + 7 * Len(bytes)) % 46307)

AdlerByte(s, i) == IF i > Len(s) THEN 0 ELSE s[i]

\* The sum of the bytes s[i..] modulo 65521, eight at a step.
RECURSIVE AdlerA(_, _)
AdlerA(s, i) ==
    IF i > Len(s) THEN 0
    ELSE ( AdlerByte(s, i) + AdlerByte(s, i + 1) + AdlerByte(s, i + 2)
         + AdlerByte(s, i + 3) + AdlerByte(s, i + 4) + AdlerByte(s, i + 5)
         + AdlerByte(s, i + 6) + AdlerByte(s, i + 7) + AdlerA(s, i + 8) ) % 65521

\* The sum over s[i..] of each byte times the number of running sums it is
\* part of, Len(s) - i + 1, modulo 65521.
RECURSIVE AdlerB(_, _)
AdlerB(s, i) ==
    IF i > Len(s) THEN 0
    ELSE LET n == Len(s) + 1
         IN  ( (n - i) * AdlerByte(s, i) + (n - i - 1) * AdlerByte(s, i + 1)
             + (n - i - 2) * AdlerByte(s, i + 2) + (n - i - 3) * AdlerByte(s, i + 3)
             + (n - i - 4) * AdlerByte(s, i + 4) + (n - i - 5) * AdlerByte(s, i + 5)
             + (n - i - 6) * AdlerByte(s, i + 6) + (n - i - 7) * AdlerByte(s, i + 7)
             + AdlerB(s, i + 8) ) % 65521

\* Adler-32: a = 1 + the sum of the bytes, b = the sum of the running a's.
Adler32Bytes(a, b) == <<b \div 256, b % 256, a \div 256, a % 256>>

Adler32(s) ==
    Adler32Bytes((1 + AdlerA(s, 1)) % 65521, (Len(s) + AdlerB(s, 1)) % 65521)

\* ZlibEncoder: a zlib stream (RFC 1950) holding the data in one stored
\* deflate block (RFC 1951): CMF FLG, BFINAL/BTYPE, LEN, NLEN, data, Adler-32.
ZlibEncode(data) ==
    << 120, 156, 1, Len(data) % 256, Len(data) \div 256,
       255 - (Len(data) % 256), 255 - (Len(data) \div 256) >>
        \o data \o Adler32(data)

\* The stored block of n bytes in z, its trailer checked.
ZlibStored(z, n) ==
    IF /\ Len(z) = n + 11
       /\ z[1] = 120 /\ z[2] = 156 /\ z[3] = 1
       /\ z[6] = 255 - z[4] /\ z[7] = 255 - z[5]
       /\ SubSeq(z, Len(z) - 3, Len(z)) = Adler32(SubSeq(z, 8, 7 + n))
    THEN [ok |-> TRUE, data |-> SubSeq(z, 8, 7 + n)]
    ELSE [ok |-> FALSE, data |-> <<>>]

\* ZlibDecoder::read_to_end: Err unless the stream is well formed.
ZlibDecode(z) ==
    IF Len(z) >= 11 THEN ZlibStored(z, z[4] + 256 * z[5])
    ELSE [ok |-> FALSE, data |-> <<>>]

(***************************************************************************)
(* The object store: hash_object.rs (put) and cat_file.rs (get)            *)
(***************************************************************************)
\* format!("{} {}\0", object_type, content.len())
ObjectHeader(object_type, content) ==
    object_type \o <<SP>> \o ToDecimal(Len(content)) \o <<NUL>>

\* A digest of the content alone, the type and length left out.
hash_content_untyped(object_type, content) ==
    hex_encode(Sha1(content))

hash_content(object_type, content) ==
    hex_encode(Sha1(ObjectHeader(object_type, content) \o content))

\* objects_dir().join(&hash[..2]).join(&hash[2..])
ObjectPath(hash) == <<SubSeq(hash, 1, 2), SubSeq(hash, 3, Len(hash))>>

Exists(od, path) == path \in DOMAIN od.files

\* create_dir_all(bucket); write the file unless the path exists.
WriteIfAbsent(od, hash, path, compressed) ==
    [od |-> [dirs |-> od.dirs \cup {path[1]},
             files |-> IF ~Exists(od, path)
                       THEN od.files @@ (path :> compressed)
                       ELSE od.files],
     hash |-> hash]

\* The same, but an object found already there has its file emptied.
WriteOrTruncate(od, hash, path, compressed) ==
    [od |-> [dirs |-> od.dirs \cup {path[1]},
             files |-> IF ~Exists(od, path)
                       THEN od.files @@ (path :> compressed)
                       ELSE [od.files EXCEPT ![path] = <<>>]],
     hash |-> hash]

StoreAt(od, hash, compressed) == WriteIfAbsent(od, hash, ObjectPath(hash), compressed)

\* A store that compresses the content without its header.
store_object_headerless(od, object_type, content) ==
    StoreAt(od, hash_content(object_type, content), ZlibEncode(content))

\* A store that, finding the object already there, empties its file.
store_object_truncating(od, object_type, content) ==
    WriteOrTruncate(od, hash_content(object_type, content),
                    ObjectPath(hash_content(object_type, content)),
                    ZlibEncode(ObjectHeader(object_type, content) \o content))

\* store_object: the store after the call and the address returned.
store_object(od, object_type, content) ==
    StoreAt(od, hash_content(object_type, content),
            ZlibEncode(ObjectHeader(object_type, content) \o content))

Err(why) == [ok |-> FALSE, err |-> why]

\* The second piece of header.split(' '), the header holding a space at sp1.
SizeText(header, sp1) ==
    LET after == SubSeq(header, sp1 + 1, Len(header))
    IN  IF Position(after, SP) = 0 THEN after
        ELSE SubSeq(after, 1, Position(after, SP) - 1)

\* Mutant: the size is not compared with the content.
ReadSized_unverified(header, sp1, content, size) ==
    IF size < 0 THEN Err("size not a number")
    ELSE [ok |-> TRUE,
          object_type |-> SubSeq(header, 1, sp1 - 1),
          size |-> size,
          content |-> content]

\* read_object, from the header, the bytes after the NUL and the size parsed.
ReadSized(header, sp1, content, size) ==
    IF size < 0 THEN Err("size not a number")
    ELSE IF Len(content) # size THEN Err("Size mismatch")
    ELSE [ok |-> TRUE,
          object_type |-> SubSeq(header, 1, sp1 - 1),
          size |-> size,
          content |-> content]

\* read_object, from the header "<type> <size>" and the bytes after the NUL.
ReadHeader(header, sp1, content) ==
    IF sp1 = 0 THEN Err("no size")
    ELSE ReadSized(header, sp1, content, ParseUsize(SizeText(header, sp1)))

\* read_object, from the decompressed bytes and the place of their first NUL.
ReadDecompressed(decompressed, null_pos) ==
    IF null_pos = 0 THEN Err("no null byte found")
    ELSE ReadHeader(SubSeq(decompressed, 1, null_pos - 1),
                    Position(SubSeq(decompressed, 1, null_pos - 1), SP),
                    SubSeq(decompressed, null_pos + 1, Len(decompressed)))

\* read_object, from what the decoder gave.
ReadInflated(z) ==
    IF ~z.ok THEN Err("Failed to decompress object")
    ELSE ReadDecompressed(z.data, Position(z.data, NUL))

\* read_object
read_object(od, hash) ==
    IF Len(hash) < 4 THEN Err("hash too short")
    ELSE IF ~Exists(od, ObjectPath(hash)) THEN Err("object not found")
    ELSE ReadInflated(ZlibDecode(od.files[ObjectPath(hash)]))

(***************************************************************************)
(* Tree objects: objects/tree.rs                                           *)
(***************************************************************************)
SLASH == 47

MODE_FILE == <<49, 48, 48, 54, 52, 52>>
MODE_EXEC == <<49, 48, 48, 55, 53, 53>>
MODE_DIR == <<52, 48, 48, 48, 48>>
MODE_SYMLINK == <<49, 50, 48, 48, 48, 48>>
MODE_DIR_PADDED == <<48, 52, 48, 48, 48, 48>>

TreeEntry_new(mode, name, hash) == [mode |-> mode, name |-> name, hash |-> hash]

TreeEntry_file(name, hash) == TreeEntry_new(MODE_FILE, name, hash)

TreeEntry_directory(name, hash) == TreeEntry_new(MODE_DIR, name, hash)

is_tree(e) == e.mode = MODE_DIR \/ e.mode = MODE_DIR_PADDED

is_blob(e) == e.mode = MODE_FILE \/ e.mode = MODE_EXEC

\* Ord for str and [u8]: byte-wise lexicographic, a proper prefix first.
LexLess(a, b) ==
    \E i \in 1..(Len(b)) :
        /\ \A j \in 1..(i - 1) : j <= Len(a) /\ a[j] = b[j]
        /\ (i > Len(a) \/ a[i] < b[i])

\* Mutant: directories compared by their bare name.
SortName_plain(e) == e.name

\* The name an entry is compared by in Tree::sort.
SortName(e) == IF is_tree(e) THEN e.name \o <<SLASH>> ELSE e.name

\* Where a stable sort puts e among the already sorted s: behind every entry
\* that does not compare greater.
InsertEntry(s, e) ==
    LET n == Cardinality({i \in 1..Len(s) : ~LexLess(SortName(e), SortName(s[i]))})
    IN  SubSeq(s, 1, n) \o <<e>> \o SubSeq(s, n + 1, Len(s))

RECURSIVE SortPrefix(_, _)
SortPrefix(entries, k) ==
    IF k = 0 THEN <<>> ELSE InsertEntry(SortPrefix(entries, k - 1), entries[k])

\* Mutant: entries left in insertion order.
Tree_sort_unsorted(entries) == entries

\* Tree::sort: Vec::sort_by (a stable sort) on the sort names.
Tree_sort(entries) == SortPrefix(entries, Len(entries))

\* Mutant: the address written as its 40 hex characters, not as 20 raw bytes.
TreeEntry_serialize_hex(e) ==
    [ok |-> TRUE, data |-> e.mode \o <<SP>> \o e.name \o <<NUL>> \o e.hash]

\* TreeEntry::serialize
TreeEntry_serialize(e) ==
    LET hash_bytes == hex_decode(e.hash)
    IN  IF ~hash_bytes.ok THEN [ok |-> FALSE, data |-> <<>>]
        ELSE [ok |-> TRUE,
              data |-> e.mode \o <<SP>> \o e.name \o <<NUL>> \o hash_bytes.bytes]

RECURSIVE SerializePrefix(_, _)
SerializePrefix(entries, k) ==
    IF k = 0 THEN [ok |-> TRUE, data |-> <<>>]
    ELSE LET before == SerializePrefix(entries, k - 1)
             this == TreeEntry_serialize(entries[k])
         IN  IF ~before.ok \/ ~this.ok THEN [ok |-> FALSE, data |-> <<>>]
             ELSE [ok |-> TRUE, data |-> before.data \o this.data]

\* Tree::serialize
Tree_serialize(entries) == SerializePrefix(entries, Len(entries))

\* Tree::parse from byte offset pos (0-based, as in the code).
RECURSIVE ParseEntries(_, _, _)
ParseEntries(content, pos, entries) ==
    IF ~(pos < Len(content)) THEN [ok |-> TRUE, entries |-> entries]
    ELSE
      LET space_pos == PositionFrom(content, SP, pos + 1) - (pos + 1)
          pos2 == pos + space_pos + 1
          null_pos == PositionFrom(content, NUL, pos2 + 1) - (pos2 + 1)
          pos3 == pos2 + null_pos + 1
      IN  IF space_pos < 0 THEN [ok |-> FALSE, entries |-> <<>>]
          ELSE IF null_pos < 0 THEN [ok |-> FALSE, entries |-> <<>>]
          ELSE IF pos3 + DIGEST_LEN > Len(content) THEN [ok |-> FALSE, entries |-> <<>>]
          ELSE ParseEntries(content, pos3 + DIGEST_LEN,
                   Append(entries,
                       [mode |-> SubSeq(content, pos + 1, pos + space_pos),
                        name |-> SubSeq(content, pos2 + 1, pos2 + null_pos),
                        hash |-> hex_encode(SubSeq(content, pos3 + 1, pos3 + DIGEST_LEN))]))

Tree_parse(content) == ParseEntries(content, 0, <<>>)

(***************************************************************************)
(* Commit objects: objects/commit.rs                                       *)
(***************************************************************************)
LF == 10
CR == 13
LT == 60
GT == 62

STR_tree_sp == STR_tree \o <<SP>>
STR_parent_sp == <<112, 97, 114, 101, 110, 116, SP>>
STR_author_sp == <<97, 117, 116, 104, 111, 114, SP>>
STR_committer_sp == <<99, 111, 109, 109, 105, 116, 116, 101, 114, SP>>

\* char::is_whitespace on the ASCII range.
IsWhitespace(b) == b \in {9, 10, 11, 12, 13, SP}

\* str::trim
Trim(s) ==
    LET keep == {i \in 1..Len(s) : ~IsWhitespace(s[i])}
    IN  IF keep = {} THEN <<>>
        ELSE SubSeq(s, CHOOSE i \in keep : \A j \in keep : i <= j,
                       CHOOSE i \in keep : \A j \in keep : i >= j)

\* The k-th element (from 1) of a set of integers in ascending order.
Nth(S, k) == CHOOSE x \in S : Cardinality({y \in S : y < x}) = k - 1

\* str::split(sep).collect(): the pieces between the separators, empty
\* pieces included; an empty text gives one empty piece.
Split(s, sep) ==
    LET cuts == {i \in 1..Len(s) : s[i] = sep}
        from(k) == IF k = 1 THEN 1 ELSE Nth(cuts, k - 1) + 1
        to(k) == IF k = Cardinality(cuts) + 1 THEN Len(s) ELSE Nth(cuts, k) - 1
    IN  [k \in 1..(Cardinality(cuts) + 1) |-> SubSeq(s, from(k), to(k))]

\* str::lines().collect(): the text cut after each "\n"; the "\n" and a "\r"
\* before it are dropped; no line follows a final "\n".
Lines(s) ==
    LET all == Split(s, LF)
        n == IF all[Len(all)] = <<>> THEN Len(all) - 1 ELSE Len(all)
        strip(k) ==
            IF k < Len(all) /\ Len(all[k]) > 0 /\ all[k][Len(all[k])] = CR
            THEN SubSeq(all[k], 1, Len(all[k]) - 1)
            ELSE all[k]
    IN  [k \in 1..n |-> strip(k)]

\* [T]::join(sep) of lines[from..]
RECURSIVE JoinFrom(_, _, _)
JoinFrom(lines, from, sep) ==
    IF from > Len(lines) THEN <<>>
    ELSE IF from = Len(lines) THEN lines[from]
    ELSE lines[from] \o <<sep>> \o JoinFrom(lines, from + 1, sep)

Join(lines, sep) == JoinFrom(lines, 1, sep)

HasPrefix(line, prefix) ==
    Len(line) >= Len(prefix) /\ SubSeq(line, 1, Len(prefix)) = prefix

\* str::strip_prefix, where HasPrefix
StripPrefix(line, prefix) == SubSeq(line, Len(prefix) + 1, Len(line))

Author_with_timestamp(name, email, timestamp, timezone) ==
    [name |-> name, email |-> email, timestamp |-> timestamp, timezone |-> timezone]

\* Author::serialize: format!("{} <{}> {} {}", name, email, timestamp, timezone)
Author_serialize(a) ==
    a.name \o <<SP, LT>> \o a.email \o <<GT, SP>> \o ToDecimal(a.timestamp)
        \o <<SP>> \o a.timezone

NoAuthor == Author_with_timestamp(<<>>, <<>>, 0, <<>>)

\* Author::parse: status "ok" with the author, "err" (an Err result), or
\* "panic" (the slice s[email_start + 1..email_end] with its start past its end).
Author_parse(s) ==
    LET email_start == Position(s, LT)
        email_end == Position(s, GT)
        name == Trim(SubSeq(s, 1, email_start - 1))
        email == SubSeq(s, email_start + 1, email_end - 1)
        rest == Split(Trim(SubSeq(s, email_end + 1, Len(s))), SP)
        timestamp == ParseUsize(rest[1])
    IN  IF email_start = 0 THEN [status |-> "err", author |-> NoAuthor]
        ELSE IF email_end = 0 THEN [status |-> "err", author |-> NoAuthor]
        ELSE IF email_end < email_start THEN [status |-> "panic", author |-> NoAuthor]
        ELSE IF Len(rest) < 2 THEN [status |-> "err", author |-> NoAuthor]
        ELSE IF timestamp < 0 THEN [status |-> "err", author |-> NoAuthor]
        ELSE [status |-> "ok",
              author |-> Author_with_timestamp(name, email, timestamp, rest[2])]

Commit_new(tree_hash, parents, author, committer, message) ==
    [tree |-> tree_hash, parents |-> parents, author |-> author,
     committer |-> committer, message |-> message]

\* Mutant: only the first parent is written.
Commit_serialize_first_parent(c) ==
    Join(<<STR_tree_sp \o c.tree>>
            \o [k \in 1..(IF Len(c.parents) > 0 THEN 1 ELSE 0) |->
                    STR_parent_sp \o c.parents[k]]
            \o <<STR_author_sp \o Author_serialize(c.author),
                 STR_committer_sp \o Author_serialize(c.committer),
                 <<>>,
                 c.message>>,
         LF)

\* Mutant: the parents are written last first.
Commit_serialize_reversed(c) ==
    Join(<<STR_tree_sp \o c.tree>>
            \o [k \in 1..Len(c.parents) |->
                    STR_parent_sp \o c.parents[Len(c.parents) + 1 - k]]
            \o <<STR_author_sp \o Author_serialize(c.author),
                 STR_committer_sp \o Author_serialize(c.committer),
                 <<>>,
                 c.message>>,
         LF)

\* Commit::serialize
Commit_serialize(c) ==
    Join(<<STR_tree_sp \o c.tree>>
            \o [k \in 1..Len(c.parents) |-> STR_parent_sp \o c.parents[k]]
            \o <<STR_author_sp \o Author_serialize(c.author),
                 STR_committer_sp \o Author_serialize(c.committer),
                 <<>>,
                 c.message>>,
         LF)

\* The header loop of Commit::parse from line k on: the fields found, the
\* index of the first message line and the status (ok, err, panic).
RECURSIVE ParseHeaders(_, _, _)
ParseHeaders(lines, k, acc) ==
    IF k > Len(lines) THEN [acc EXCEPT !.next = k]
    ELSE IF lines[k] = <<>> THEN [acc EXCEPT !.next = k + 1]
    ELSE IF HasPrefix(lines[k], STR_tree_sp)
         THEN ParseHeaders(lines, k + 1,
                  [acc EXCEPT !.tree = StripPrefix(lines[k], STR_tree_sp)])
    ELSE IF HasPrefix(lines[k], STR_parent_sp)
         THEN ParseHeaders(lines, k + 1,
                  [acc EXCEPT !.parents = Append(@, StripPrefix(lines[k], STR_parent_sp))])
    ELSE IF HasPrefix(lines[k], STR_author_sp)
         THEN LET a == Author_parse(StripPrefix(lines[k], STR_author_sp))
              IN  IF a.status # "ok" THEN [acc EXCEPT !.status = a.status]
                  ELSE ParseHeaders(lines, k + 1,
                           [acc EXCEPT !.author = a.author, !.has_author = TRUE])
    ELSE IF HasPrefix(lines[k], STR_committer_sp)
         THEN LET a == Author_parse(StripPrefix(lines[k], STR_committer_sp))
              IN  IF a.status # "ok" THEN [acc EXCEPT !.status = a.status]
                  ELSE ParseHeaders(lines, k + 1,
                           [acc EXCEPT !.committer = a.author, !.has_committer = TRUE])
    ELSE ParseHeaders(lines, k + 1, acc)

NoCommit == Commit_new(<<>>, <<>>, NoAuthor, NoAuthor, <<>>)

\* Commit::parse: status "ok" with the commit, "err" or "panic".
Commit_parse(content) ==
    LET lines == Lines(content)
        h == ParseHeaders(lines, 1,
                 [status |-> "ok", tree |-> <<>>, parents |-> <<>>,
                  author |-> NoAuthor, has_author |-> FALSE,
                  committer |-> NoAuthor, has_committer |-> FALSE, next |-> 1])
        message == JoinFrom(lines, h.next, LF)
    IN  IF h.status # "ok" THEN [status |-> h.status, commit |-> NoCommit]
        ELSE IF ~h.has_author THEN [status |-> "err", commit |-> NoCommit]
        ELSE IF ~h.has_committer THEN [status |-> "err", commit |-> NoCommit]
        ELSE [status |-> "ok",
              commit |-> Commit_new(h.tree, h.parents, h.author, h.committer, message)]

is_initial(c) == Len(c.parents) = 0

is_merge(c) == Len(c.parents) >= 2

(***************************************************************************)
(* The staging index and the tree builder: index.rs, commands/commit.rs    *)
(***************************************************************************)
DOT == 46

\* Paths are relative and normalised, as strip_prefix(repo_root) leaves them.
LastSlash(p) ==
    LET cuts == {i \in 1..Len(p) : p[i] = SLASH}
    IN  IF cuts = {} THEN 0 ELSE CHOOSE i \in cuts : \A j \in cuts : j <= i

\* Path::parent: None for the empty path, else the path without its last
\* component.
Path_parent(p) ==
    IF p = <<>> THEN [some |-> FALSE, path |-> <<>>]
    ELSE [some |-> TRUE, path |-> SubSeq(p, 1, LastSlash(p) - 1)]

\* Path::file_name: the last component; None for the empty path and for one
\* that ends in "..".
Path_file_name(p) ==
    LET last == SubSeq(p, LastSlash(p) + 1, Len(p))
    IN  IF p = <<>> \/ last = <<DOT, DOT>> THEN [some |-> FALSE, name |-> <<>>]
        ELSE [some |-> TRUE, name |-> last]

\* d.matches('/').count()
SlashCount(d) == Cardinality({i \in 1..Len(d) : d[i] = SLASH})

\* The orders in which a HashMap may hand out the keys S.
IterationOrders(S) ==
    {o \in [1..Cardinality(S) -> S] : \A i, j \in DOMAIN o : i # j => o[i] # o[j]}

IndexEntry(path, hash, size, mtime) ==
    [path |-> path, hash |-> hash, size |-> size, mtime |-> mtime]

Index_new == [p \in {} |-> IndexEntry(<<>>, <<>>, 0, 0)]

\* Index::add_entry: insert under the entry's path, replacing what was there.
Index_add_entry(ix, entry) ==
    [p \in DOMAIN ix \cup {entry.path} |-> IF p = entry.path THEN entry ELSE ix[p]]

\* Index::remove_entry
Index_remove_entry(ix, path) == [p \in DOMAIN ix \ {path} |-> ix[p]]

\* path.parent().map(..).unwrap_or_default()
ParentDir(path) == Path_parent(path).path

\* dir_files after the grouping loop, the index entries handed out in the
\* order entry_order: directory -> (file name, address) in arrival order.
GroupByDir(ix, entry_order) ==
    [d \in {ParentDir(p) : p \in DOMAIN ix} |->
        LET InDir(p) == ParentDir(p) = d
            mine == SelectSeq(entry_order, InDir)
        IN  [i \in 1..Len(mine) |->
                <<Path_file_name(mine[i]).name, ix[mine[i]].hash>>]]

\* Vec::sort_by_key over the slash count: a stable insertion.
InsertByDepth(s, d) ==
    LET after == {i \in 1..Len(s) : SlashCount(s[i]) > SlashCount(d)}
        k == IF after = {} THEN Len(s) + 1
             ELSE CHOOSE i \in after : \A j \in after : i <= j
    IN  SubSeq(s, 1, k - 1) \o <<d>> \o SubSeq(s, k, Len(s))

RECURSIVE SortByDepth(_, _)
SortByDepth(keys, k) ==
    IF k = 0 THEN <<>> ELSE InsertByDepth(SortByDepth(keys, k - 1), keys[k])

Reverse(s) == [i \in 1..Len(s) |-> s[Len(s) + 1 - i]]

\* dir_levels: the keys as handed out, sorted by depth, then reversed.
DirLevels(key_order) == Reverse(SortByDepth(key_order, Len(key_order)))

\* The entries of the tree of dir_path: its files, then the trees built so
\* far whose parent is dir_path, handed out in the order built_order.
DirEntries(dir_path, files, built_trees, built_order) ==
    LET IsChild(sp) ==
            /\ sp \in DOMAIN built_trees
            /\ Path_parent(sp).some
            /\ Path_parent(sp).path = dir_path
        subdirs == SelectSeq(built_order, IsChild)
        dir_name(sp) == IF Path_file_name(sp).some
                        THEN Path_file_name(sp).name ELSE sp
    IN  [i \in 1..Len(files) |-> TreeEntry_file(files[i][1], files[i][2])]
        \o [i \in 1..Len(subdirs) |->
                TreeEntry_directory(dir_name(subdirs[i]), built_trees[subdirs[i]])]

\* The loop over dir_levels from position k on, and the final lookup of "".
\* BuildLevel is one iteration given the serialized tree, BuildStored the
\* rest of it given what store_object returned.
RECURSIVE BuildLevels(_, _, _, _, _, _, _)
BuildStored(dir_files, dir_levels, k, built_trees, built_order, written, data, st) ==
    BuildLevels(st.od, dir_files, dir_levels, k + 1,
                (dir_levels[k] :> st.hash) @@ built_trees, built_order,
                Append(written, [object_type |-> STR_tree, content |-> data,
                                 hash |-> st.hash]))

BuildLevel(od, dir_files, dir_levels, k, built_trees, built_order, written, tree_content) ==
    IF ~tree_content.ok
    THEN [od |-> od, written |-> written, result |-> Err("hex::decode")]
    ELSE BuildStored(dir_files, dir_levels, k, built_trees, built_order, written,
                     tree_content.data,
                     store_object(od, STR_tree, tree_content.data))

\* Mutant: with no directory to build, an empty root tree is stored.
BuildLevels_empty_root(od, dir_files, dir_levels, k, built_trees, built_order, written) ==
    IF k > Len(dir_levels)
    THEN IF <<>> \in DOMAIN built_trees
         THEN [od |-> od, written |-> written,
               result |-> [ok |-> TRUE, hash |-> built_trees[<<>>]]]
         ELSE [od |-> store_object(od, STR_tree, <<>>).od,
               written |-> Append(written, [object_type |-> STR_tree, content |-> <<>>,
                                            hash |-> hash_content(STR_tree, <<>>)]),
               result |-> [ok |-> TRUE, hash |-> hash_content(STR_tree, <<>>)]]
    ELSE BuildLevel(od, dir_files, dir_levels, k, built_trees, built_order, written,
             Tree_serialize(Tree_sort(
                 DirEntries(dir_levels[k], dir_files[dir_levels[k]],
                            built_trees, built_order))))

BuildLevels(od, dir_files, dir_levels, k, built_trees, built_order, written) ==
    IF k > Len(dir_levels)
    THEN [od |-> od, written |-> written,
          result |-> IF <<>> \in DOMAIN built_trees
                     THEN [ok |-> TRUE, hash |-> built_trees[<<>>]]
                     ELSE Err("Failed to build root tree")]
    ELSE BuildLevel(od, dir_files, dir_levels, k, built_trees, built_order, written,
             Tree_serialize(Tree_sort(
                 DirEntries(dir_levels[k], dir_files[dir_levels[k]],
                            built_trees, built_order))))

\* What the grouping loop may leave in dir_files, over the orders in which
\* the index hands out its entries.
GroupingOutcomes(ix) ==
    {GroupByDir(ix, entry_order) : entry_order \in IterationOrders(DOMAIN ix)}

\* What dir_levels may be, over the orders in which dir_files hands out its keys.
DirLevelsOutcomes(dirs) ==
    {DirLevels(key_order) : key_order \in IterationOrders(dirs)}

\* build_tree_from_index, given what the iteration of index.entries() left in
\* dir_files, what the iteration of dir_files.keys() left in dir_levels, and
\* the order in which built_trees is iterated.
build_tree_from_index(od, ix, dir_files, dir_levels, built_order) ==
    IF \E p \in DOMAIN ix : ~Path_file_name(p).some
    THEN [od |-> od, written |-> <<>>, result |-> Err("Invalid file path")]
    ELSE BuildLevels(od, dir_files, dir_levels, 1,
                     [d \in {} |-> <<>>], built_order, <<>>)

\* The store_object calls of a command, added to the history of puts.
RecordWritten(history, written) ==
    LET keys == {<<written[i].object_type, written[i].content>> : i \in DOMAIN written}
        HashOf(k) == LET i == CHOOSE j \in DOMAIN written :
                                 <<written[j].object_type, written[j].content>> = k
                     IN  written[i].hash
    IN  [k \in DOMAIN history \cup keys |->
            IF k \in DOMAIN history THEN history[k] ELSE HashOf(k)]

(***************************************************************************)
(* The commands: add.rs, write_tree.rs, commit_tree.rs, commit.rs, log.rs  *)
(***************************************************************************)
\* ".rit/" and ".ritignore"
STR_rit_slash == <<DOT, 114, 105, 116, SLASH>>
STR_ritignore == <<DOT, 114, 105, 116, 105, 103, 110, 111, 114, 101>>

\* add_file_to_index, the working directory holding no .ritignore (no rule
\* ignores anything): the blob is stored and the entry replaces the path's.
AddStored(ix, relative_path, content, mtime, st) ==
    [od |-> st.od,
     index |-> Index_add_entry(ix,
                   IndexEntry(relative_path, st.hash, Len(content), mtime)),
     written |-> <<[object_type |-> STR_blob, content |-> content,
                    hash |-> st.hash]>>]

\* Mutant: the file is hashed and staged, the blob is not stored.
add_file_to_index_unstored(od, ix, wt, relative_path, mtime) ==
    AddStored(ix, relative_path, wt[relative_path], mtime,
              [od |-> od, hash |-> hash_content(STR_blob, wt[relative_path])])

add_file_to_index(od, ix, wt, relative_path, mtime) ==
    IF HasPrefix(relative_path, STR_rit_slash) \/ relative_path = STR_ritignore
    THEN [od |-> od, index |-> ix, written |-> <<>>]
    ELSE AddStored(ix, relative_path, wt[relative_path], mtime,
                   store_object(od, STR_blob, wt[relative_path]))

\* The names in S in ascending byte order, as entries.sort_by_key(file_name)
\* leaves them.
SortedNames(S) ==
    CHOOSE o \in IterationOrders(S) : \A i, j \in DOMAIN o : i < j => LexLess(o[i], o[j])

\* The part of path p below directory d; empty when p is not below d.
Below(d, p) ==
    IF d = <<>> THEN p
    ELSE IF HasPrefix(p, d \o <<SLASH>>) THEN StripPrefix(p, d \o <<SLASH>>)
    ELSE <<>>

FirstComponent(rest) ==
    IF Position(rest, SLASH) = 0 THEN rest
    ELSE SubSeq(rest, 1, Position(rest, SLASH) - 1)

\* fs::read_dir(dir_path): the names directly in d (.rit is kept apart from
\* the working files, which is what skipping it amounts to).
ReadDir(wt, d) ==
    {FirstComponent(Below(d, p)) : p \in {q \in DOMAIN wt : Below(d, q) # <<>>}}

\* write_tree_recursive, and its loop over the sorted directory entries from
\* position k on.  Every file is a regular, non-executable file.
\* WriteTreeFile and WriteTreeDir are the two branches of the loop body, given
\* what store_object and the recursive call returned; WriteTreeStore is the
\* end of write_tree_recursive, given what the loop left.
RECURSIVE write_tree_recursive(_, _, _)
RECURSIVE WriteTreeEntries(_, _, _, _, _, _, _)
WriteTreeFile(wt, dir_path, names, k, entries, written, content, st) ==
    WriteTreeEntries(st.od, wt, dir_path, names, k + 1,
        Append(entries, TreeEntry_new(MODE_FILE, names[k], st.hash)),
        Append(written, [object_type |-> STR_blob, content |-> content,
                         hash |-> st.hash]))

WriteTreeDir(wt, dir_path, names, k, entries, written, sub) ==
    WriteTreeEntries(sub.od, wt, dir_path, names, k + 1,
        Append(entries, TreeEntry_directory(names[k], sub.hash)),
        written \o sub.written)

ChildPath(dir_path, name) ==
    IF dir_path = <<>> THEN name ELSE dir_path \o <<SLASH>> \o name

WriteTreeEntries(od, wt, dir_path, names, k, entries, written) ==
    IF k > Len(names) THEN [od |-> od, entries |-> entries, written |-> written]
    ELSE IF ChildPath(dir_path, names[k]) \in DOMAIN wt
    THEN WriteTreeFile(wt, dir_path, names, k, entries, written,
             wt[ChildPath(dir_path, names[k])],
             store_object(od, STR_blob, wt[ChildPath(dir_path, names[k])]))
    ELSE WriteTreeDir(wt, dir_path, names, k, entries, written,
             write_tree_recursive(od, wt, ChildPath(dir_path, names[k])))

WriteTreeStored(written, data, st) ==
    [od |-> st.od, hash |-> st.hash,
     written |-> Append(written, [object_type |-> STR_tree, content |-> data,
                                  hash |-> st.hash])]

WriteTreeStore(r, tree_content) ==
    WriteTreeStored(r.written, tree_content.data,
                    store_object(r.od, STR_tree, tree_content.data))

WriteTreeSerialize(r) == WriteTreeStore(r, Tree_serialize(Tree_sort(r.entries)))

write_tree_recursive(od, wt, dir_path) ==
    WriteTreeSerialize(
        WriteTreeEntries(od, wt, dir_path, SortedNames(ReadDir(wt, dir_path)),
                         1, <<>>, <<>>))

\* "+0000"
STR_utc == <<43, ZERO, ZERO, ZERO, ZERO>>

\* Author::new, the clock reading now
Author_new(name, email, now) == Author_with_timestamp(name, email, now, STR_utc)

\* commit_tree::run, get_author() reading the name and email given and the
\* clock reading now1 for the author and now2 for the committer.  status is
\* "ok", "err" or "panic" (the slice tree_hash[..2] of a shorter text).
CommitStored(commit_content, st) ==
    [status |-> "ok", od |-> st.od, hash |-> st.hash,
     written |-> <<[object_type |-> STR_commit, content |-> commit_content,
                    hash |-> st.hash]>>]

CommitStore(od, commit_content) ==
    CommitStored(commit_content, store_object(od, STR_commit, commit_content))

commit_tree_run(od, tree_hash, parents, message, name, email, now1, now2) ==
    IF Len(tree_hash) < 2
    THEN [status |-> "panic", od |-> od, hash |-> <<>>, written |-> <<>>]
    ELSE IF ~Exists(od, ObjectPath(tree_hash))
    THEN [status |-> "err", od |-> od, hash |-> <<>>, written |-> <<>>]
    ELSE CommitStore(od,
             Commit_serialize(
                 Commit_new(tree_hash, parents, Author_new(name, email, now1),
                            Author_new(name, email, now2), message)))

\* log::read_head: the commit HEAD names, if any.
read_head(head, ref_files) ==
    LET head_content == Trim(head)
        ref_path == Trim(StripPrefix(head_content, STR_ref_colon))
    IN  IF HasPrefix(head_content, STR_ref_colon)
        THEN IF ref_path \in DOMAIN ref_files
             THEN [some |-> TRUE, hash |-> Trim(ref_files[ref_path])]
             ELSE [some |-> FALSE, hash |-> <<>>]
        ELSE IF head_content # <<>> THEN [some |-> TRUE, hash |-> head_content]
        ELSE [some |-> FALSE, hash |-> <<>>]

\* update_ref: HEAD and the ref files after the write.
update_ref(head, ref_files, commit_hash) ==
    LET head_content == Trim(head)
        ref_path == Trim(StripPrefix(head_content, STR_ref_colon))
    IN  IF HasPrefix(head_content, STR_ref_colon)
        THEN [head |-> head,
              refs |-> [r \in DOMAIN ref_files \cup {ref_path} |->
                           IF r = ref_path THEN commit_hash \o <<LF>>
                           ELSE ref_files[r]]]
        ELSE [head |-> commit_hash \o <<LF>>, refs |-> ref_files]

(***************************************************************************)
(* History: commands/log.rs (first-parent walk) and commands/graph.rs      *)
(* (collection of every commit reachable from the branch heads and HEAD)   *)
(***************************************************************************)
STR_commit_sp == <<99, 111, 109, 109, 105, 116, SP>>
STR_merge == <<77, 101, 114, 103, 101, 58, SP>>
STR_author_label == <<65, 117, 116, 104, 111, 114, 58, SP>>
STR_date_label == <<68, 97, 116, 101, 58, SP, SP, SP>>
STR_indent == <<SP, SP, SP, SP>>
STR_refs_heads == <<114, 101, 102, 115, 47, 104, 101, 97, 100, 115, 47>>

\* &hash[..7.min(hash.len())]
ShortHash(hash) == SubSeq(hash, 1, IF Len(hash) < 7 THEN Len(hash) ELSE 7)

\* message.lines().next().unwrap_or("")
FirstLine(message) == IF Lines(message) = <<>> THEN <<>> ELSE Lines(message)[1]

\* format_commit: one line "<short-hash> <first message line>", or the full
\* form with the address, the two parents of a merge, the author, the date
\* and the indented message.
format_commit(commit, commit_hash, oneline) ==
    IF oneline THEN ShortHash(commit_hash) \o <<SP>> \o FirstLine(commit.message)
    ELSE Join(<<STR_commit_sp \o commit_hash>>
                \o (IF is_merge(commit)
                    THEN <<STR_merge \o ShortHash(commit.parents[1]) \o <<SP>>
                              \o ShortHash(commit.parents[2])>>
                    ELSE <<>>)
                \o <<STR_author_label \o commit.author.name \o <<SP, LT>>
                         \o commit.author.email \o <<GT>>,
                     STR_date_label \o ToDecimal(commit.author.timestamp),
                     <<>>>>
                \o [k \in 1..Len(Lines(commit.message)) |->
                        STR_indent \o Lines(commit.message)[k]],
              LF)

\* The loop condition of traverse_commits, without its cycle guard.
WalkContinues_unguarded(current, visited) == current # <<>>

\* while !current.is_empty() && !visited.contains(&current)
WalkContinues(current, visited) == current # <<>> /\ current \notin visited

\* The parent taken next, were it the last one.
NextParent_last(commit) == commit.parents[Len(commit.parents)]

\* commit.parents.first(), where there is a parent
NextParent(commit) == commit.parents[1]

\* traverse_commits returning (Ok with the lines pushed so far, or Err).
WalkReturn(w, status) ==
    [w EXCEPT !.pc = "done", !.status = status,
              !.output = IF status = "ok" THEN @ ELSE <<>>]

\* An object that is no commit ending the walk, were it reported as an error.
WalkNonCommit_strict(w) == WalkReturn(w, "err")

\* if object.object_type != "commit" { break; }
WalkNonCommit(w) == WalkReturn(w, "ok")

\* One iteration, from Commit::parse on.
WalkParsed(w, parsed) ==
    IF parsed.status # "ok" THEN WalkReturn(w, parsed.status)
    ELSE IF parsed.commit.parents # <<>>
    THEN [w EXCEPT !.output = Append(@, format_commit(parsed.commit, w.current, w.oneline)),
                   !.current = NextParent(parsed.commit)]
    ELSE WalkReturn(
             [w EXCEPT !.output = Append(@, format_commit(parsed.commit, w.current,
                                                          w.oneline))],
             "ok")

\* One iteration, from what read_object gave.
WalkRead(w, object) ==
    IF ~object.ok THEN WalkReturn(w, "err")
    ELSE IF object.object_type # STR_commit THEN WalkNonCommit(w)
    ELSE WalkParsed(w, Commit_parse(object.content))

\* traverse_commits: the loop condition and, where it holds, one iteration.
\* reads is the history of the addresses handed to read_object.
traverse_commits_step(od, w) ==
    IF ~WalkContinues(w.current, w.visited) THEN WalkReturn(w, "ok")
    ELSE WalkRead([w EXCEPT !.visited = @ \cup {w.current},
                            !.reads = Append(@, w.current)],
                  read_object(od, w.current))

\* The branch files directly under refs/heads (path.is_file()).
BranchFiles(ref_files) ==
    {r \in DOMAIN ref_files :
        HasPrefix(r, STR_refs_heads)
        /\ Position(StripPrefix(r, STR_refs_heads), SLASH) = 0}

\* The queue collect_all_commits starts with: the branch heads in the order
\* read_dir hands them out, then what HEAD names.
RECURSIVE StartQueue(_, _, _, _)
StartQueue(ref_files, order, k, queue) ==
    IF k > Len(order) THEN queue
    ELSE StartQueue(ref_files, order, k + 1,
             IF Trim(ref_files[order[k]]) # <<>>
             THEN Append(queue, Trim(ref_files[order[k]]))
             ELSE queue)

CollectStarts(head, ref_files, order) ==
    StartQueue(ref_files, order, 1, <<>>)
        \o (IF read_head(head, ref_files).some
            THEN <<read_head(head, ref_files).hash>> ELSE <<>>)

\* The parents pushed on the queue, were only the first followed.
ParentsToVisit_first(parents, visited) ==
    IF parents # <<>> /\ parents[1] \notin visited THEN <<parents[1]>> ELSE <<>>

\* for parent in commit.parents { if !visited.contains(&parent) { push_back } }
ParentsToVisit(parents, visited) ==
    SelectSeq(parents, LAMBDA parent : parent \notin visited)

CommitNode(commit_hash, commit) ==
    [hash |-> commit_hash, short_hash |-> ShortHash(commit_hash),
     message |-> FirstLine(commit.message), parents |-> commit.parents,
     is_merge |-> Len(commit.parents) > 1]

\* One iteration of the collecting loop, from Commit::parse on.
CollectParsed(c, commit_hash, parsed) ==
    IF parsed.status = "panic" THEN [c EXCEPT !.pc = "panic"]
    ELSE IF parsed.status # "ok" THEN c
    ELSE [c EXCEPT !.commits = (commit_hash :> CommitNode(commit_hash, parsed.commit))
                                   @@ @,
                   !.to_visit = @ \o ParentsToVisit(parsed.commit.parents, c.visited)]

\* One iteration, from what read_object gave.
CollectRead(c, commit_hash, object) ==
    IF ~object.ok THEN c
    ELSE IF object.object_type # STR_commit THEN c
    ELSE CollectParsed(c, commit_hash, Commit_parse(object.content))

\* collect_all_commits: while let Some(commit_hash) = to_visit.pop_front()
collect_all_commits_step(od, c) ==
    IF c.to_visit = <<>> THEN [c EXCEPT !.pc = "done"]
    ELSE IF Head(c.to_visit) \in c.visited THEN [c EXCEPT !.to_visit = Tail(@)]
    ELSE CollectRead([c EXCEPT !.to_visit = Tail(@),
                               !.visited = @ \cup {Head(c.to_visit)},
                               !.reads = Append(@, Head(c.to_visit))],
                     Head(c.to_visit),
                     read_object(od, Head(c.to_visit)))

\* The addresses of a sequence.
Range(seq) == {seq[i] : i \in 1..Len(seq)}

\* generate_ascii_graph: the commits that branches point at, the keys of
\* branch_heads.
BranchHeads(commits, ref_files) ==
    {Trim(ref_files[r]) : r \in BranchFiles(ref_files)} \cap DOMAIN commits

\* The queue the level assignment starts with: the branch heads in the order
\* branch_heads hands them out, then what HEAD names when it is a commit that
\* is no branch head.
LevelStarts(commits, head, ref_files, order) ==
    order \o (IF /\ read_head(head, ref_files).some
                 /\ read_head(head, ref_files).hash \in DOMAIN commits
                 /\ read_head(head, ref_files).hash \notin BranchHeads(commits, ref_files)
              THEN <<read_head(head, ref_files).hash>> ELSE <<>>)

Max(a, b) == IF a >= b THEN a ELSE b

\* for parent in &node.parents: one parent.
LevelParent(st, visited, parent, current_level) ==
    IF parent \in visited THEN st
    ELSE [queue |-> Append(st.queue, parent),
          levels |-> (parent :> Max(IF parent \in DOMAIN st.levels
                                    THEN st.levels[parent] ELSE current_level + 1,
                                    current_level + 1)) @@ st.levels]

\* for parent in &node.parents, from the k-th on.
RECURSIVE LevelParents(_, _, _, _, _)
LevelParents(st, visited, parents, k, current_level) ==
    IF k > Len(parents) THEN st
    ELSE LevelParents(LevelParent(st, visited, parents[k], current_level),
                      visited, parents, k + 1, current_level)

\* while let Some(commit_hash) = queue.pop_front(): the levels at the end.
RECURSIVE AssignLevels(_, _, _, _)
AssignLevelsFrom(commits, visited, st) ==
    AssignLevels(commits, st.queue, visited, st.levels)

AssignLevels(commits, queue, visited, levels) ==
    IF queue = <<>> THEN levels
    ELSE IF Head(queue) \in visited
    THEN AssignLevels(commits, Tail(queue), visited, levels)
    ELSE IF Head(queue) \notin DOMAIN commits
    THEN AssignLevels(commits, Tail(queue), visited \cup {Head(queue)}, levels)
    ELSE AssignLevelsFrom(commits, visited \cup {Head(queue)},
             LevelParents([queue |-> Tail(queue), levels |-> levels],
                          visited \cup {Head(queue)},
                          commits[Head(queue)].parents, 1,
                          IF Head(queue) \in DOMAIN levels THEN levels[Head(queue)]
                          ELSE 0))

\* generate_ascii_graph: the level of every commit it lists.
generate_ascii_graph_levels(commits, starts) ==
    AssignLevels(commits, starts, {}, [x \in Range(starts) |-> 0])

(***************************************************************************)
(* Spec: the store driven through its two operations, put and get          *)
(***************************************************************************)
MaxObjects == 2

EmptyFiles == [p \in {} |-> <<>>]

ObjectTypes == {STR_blob, STR_tree, STR_commit}

\* Contents put: empty, a NUL inside, "Hello, World!" (13 bytes, a two-digit
\* length), and text with a space and digits that looks like a header.
Contents ==
    { <<>>,
      <<97, NUL, 98, NUL>>,
      <<72, 101, 108, 108, 111, 44, SP, 87, 111, 114, 108, 100, 33>>,
      <<98, 108, 111, 98, SP, 49, NUL, 49>> }

\* Addresses asked of get: the address of every (type, content), stored or
\* not, and two that are too short.
Addresses ==
    {hash_content(t, c) : t \in ObjectTypes, c \in Contents}
        \cup {<<97, 98>>, <<97, 98, 99>>}

StoreInit ==
    /\ objects_dir = [dirs |-> {}, files |-> EmptyFiles]
    /\ puts = EmptyFiles
    /\ ret = [op |-> "init"]

TreeInit ==
    /\ tree = <<>>
    /\ tree_io = [stage |-> "new", added |-> <<>>, sorted |-> FALSE,
                  bytes |-> <<>>, parsed |-> [ok |-> FALSE, entries |-> <<>>]]

AuthorIdle ==
    author_io = [stage |-> "idle", text |-> <<>>,
                 parsed |-> [status |-> "err", author |-> NoAuthor]]

CommitIdle ==
    /\ commit_io = [stage |-> "idle", commit |-> NoCommit, text |-> <<>>,
                    parsed |-> [status |-> "err", commit |-> NoCommit]]
    /\ AuthorIdle

\* No history walk and no collection under way.
GraphIdle ==
    /\ walk = [pc |-> "idle", start |-> <<>>, oneline |-> TRUE, current |-> <<>>,
               visited |-> {}, output |-> <<>>, status |-> "ok", reads |-> <<>>]
    /\ collect = [pc |-> "idle", starts |-> <<>>, to_visit |-> <<>>, visited |-> {},
                  commits |-> EmptyFiles, reads |-> <<>>, levels |-> EmptyFiles]

\* No process inside store_object.
Procs == {1, 2}

RaceIdle ==
    race = [object_type |-> <<>>, content |-> <<>>,
            before |-> [dirs |-> {}, files |-> EmptyFiles],
            proc |-> [p \in Procs |-> [pc |-> "idle", hash |-> <<>>, wrote |-> FALSE,
                                       ret |-> <<>>]]]

\* No diff asked for.
DiffIdle ==
    diff_io = [stage |-> "idle", old |-> <<>>, new |-> <<>>, i |-> 0, j |-> 0,
               edits |-> <<>>]

\* A repository just initialised: nothing staged, an empty working directory,
\* HEAD naming the branch main, no ref written.
RepoInit ==
    /\ index = Index_new
    /\ build = [n |-> 0, input |-> Index_new, written |-> <<>>,
                result |-> Err("no build yet")]
    /\ worktree = EmptyFiles
    /\ head_file = STR_ref_colon \o STR_refs_heads_main \o <<LF>>
    /\ refs = EmptyFiles

Init == StoreInit /\ TreeInit /\ CommitIdle /\ RepoInit /\ GraphIdle /\ RaceIdle /\ DiffIdle

\* put(object_type, content)
Put(object_type, content) ==
    /\ <<object_type, content>> \in DOMAIN puts
          \/ Cardinality(DOMAIN puts) < MaxObjects
    /\ \E r \in {store_object(objects_dir, object_type, content)} :
         /\ objects_dir' = r.od
         /\ puts' = IF <<object_type, content>> \in DOMAIN puts THEN puts
                    ELSE puts @@ (<<object_type, content>> :> r.hash)
         /\ ret' = [op |-> "put", object_type |-> object_type,
                    content |-> content, hash |-> r.hash,
                    existed |-> Exists(objects_dir, ObjectPath(r.hash))]
    /\ UNCHANGED <<treeVars, commitVars, repoVars, graphVars, raceVars, diffVars>>

\* get(address)
Get(hash) ==
    /\ ret' = [op |-> "get", hash |-> hash, result |-> read_object(objects_dir, hash)]
    /\ UNCHANGED <<objects_dir, puts>>
    /\ UNCHANGED <<treeVars, commitVars, repoVars, graphVars, raceVars, diffVars>>

Next ==
    \/ \E t \in ObjectTypes, c \in Contents : Put(t, c)
    \/ \E h \in Addresses : Get(h)

Spec == Init /\ [][Next]_vars

\* The digest is collision-free on everything the model has put.
NoCollision ==
    \A p, q \in DOMAIN puts : p # q => puts[p] # puts[q]

\* C1: for every type T and every byte sequence B that has been put, get of
\* the address put returned succeeds and yields type T, content B and size
\* Len(B); the address is 40 characters, each a lowercase hexadecimal digit.
C1_PutGetRoundTrip ==
    /\ \A key \in DOMAIN puts :
          LET hash == puts[key]
              g == read_object(objects_dir, hash)
          IN  /\ g.ok
              /\ g.object_type = key[1]
              /\ g.content = key[2]
              /\ g.size = Len(key[2])
              /\ Len(hash) = 40
              /\ \A i \in 1..Len(hash) : IsLowerHex(hash[i])
    /\ ret.op = "put" =>
          /\ <<ret.object_type, ret.content>> \in DOMAIN puts
          /\ ret.hash = puts[<<ret.object_type, ret.content>>]

\* A get has returned a stored object whose content holds NUL bytes.
C1_Witness ==
    /\ ret.op = "get"
    /\ ret.result.ok
    /\ ret.result.content = <<97, NUL, 98, NUL>>
    /\ \E t \in ObjectTypes : <<t, ret.result.content>> \in DOMAIN puts

\* C3: a put of a (type, content) pair that was put before returns the same
\* address and leaves the store as it was, and the store holds exactly one
\* object per distinct pair put.
C3_PutIdempotent ==
    /\ [](Cardinality(DOMAIN objects_dir.files) = Cardinality(DOMAIN puts))
    /\ [][ (ret'.op = "put" /\ <<ret'.object_type, ret'.content>> \in DOMAIN puts)
             => /\ objects_dir' = objects_dir
                /\ ret'.hash = puts[<<ret'.object_type, ret'.content>>] ]_vars

\* A put found its object already stored, beside another stored object.
C3_Witness ==
    /\ ret.op = "put"
    /\ ret.existed
    /\ <<ret.object_type, ret.content>> \in DOMAIN puts
    /\ Cardinality(DOMAIN objects_dir.files) >= 2

(***************************************************************************)
(* SpecTree: one Tree taken through add_entry, sort, serialize and parse   *)
(***************************************************************************)
MaxEntries == 3

NAME_lib == <<108, 105, 98>>
NAME_lib_extra == <<108, 105, 98, 45, 101, 120, 116, 114, 97>>
NAME_lib0 == <<108, 105, 98, 48>>
NAME_a_b == <<97, SP, 98>>

\* "aaaa...": the address the tests use.
HASH_a == [i \in 1..(2 * DIGEST_LEN) |-> 97]
\* "00200020...": raw bytes NUL and space, the two separators of the encoding.
HASH_0020 == [i \in 1..(2 * DIGEST_LEN) |-> IF i % 4 = 3 THEN 50 ELSE 48]
\* "0c9f0c9f...": mixed digits and letters.
HASH_0c9f == [i \in 1..(2 * DIGEST_LEN) |->
                 IF i % 4 = 1 THEN 48 ELSE IF i % 4 = 2 THEN 99
                 ELSE IF i % 4 = 3 THEN 57 ELSE 102]

EntryPool ==
    { TreeEntry_file(NAME_lib, HASH_a),
      TreeEntry_directory(NAME_lib_extra, HASH_0020),
      TreeEntry_directory(NAME_lib, HASH_0c9f),
      TreeEntry_new(MODE_EXEC, NAME_lib0, HASH_a),
      TreeEntry_new(MODE_DIR_PADDED, NAME_a_b, HASH_0020),
      TreeEntry_new(MODE_SYMLINK, NAME_lib_extra, HASH_0c9f) }

\* Tree::add_entry
TreeAddEntry(e) ==
    /\ tree_io.stage = "new"
    /\ Len(tree) < MaxEntries
    /\ tree' = Append(tree, e)
    /\ tree_io' = [tree_io EXCEPT !.added = Append(@, e)]
    /\ UNCHANGED <<storeVars, commitVars, repoVars, graphVars, raceVars, diffVars>>

\* Tree::sort
TreeSort ==
    /\ tree_io.stage = "new"
    /\ tree' = Tree_sort(tree)
    /\ tree_io' = [tree_io EXCEPT !.stage = "sorted", !.sorted = TRUE]
    /\ UNCHANGED <<storeVars, commitVars, repoVars, graphVars, raceVars, diffVars>>

\* Tree::serialize
TreeSerialize ==
    /\ tree_io.stage \in {"new", "sorted"}
    /\ Tree_serialize(tree).ok
    /\ tree_io' = [tree_io EXCEPT !.stage = "serialized",
                                  !.bytes = Tree_serialize(tree).data]
    /\ UNCHANGED <<tree, storeVars, commitVars, repoVars, graphVars, raceVars, diffVars>>

\* Tree::parse of the serialized bytes
TreeParse ==
    /\ tree_io.stage = "serialized"
    /\ tree_io' = [tree_io EXCEPT !.stage = "parsed",
                                  !.parsed = Tree_parse(tree_io.bytes)]
    /\ UNCHANGED <<tree, storeVars, commitVars, repoVars, graphVars, raceVars, diffVars>>

NextTree ==
    \/ \E e \in EntryPool : TreeAddEntry(e)
    \/ TreeSort
    \/ TreeSerialize
    \/ TreeParse

SpecTree == Init /\ [][NextTree]_vars

UniqueNames(entries) ==
    \A i, j \in 1..Len(entries) : i # j => entries[i].name # entries[j].name

\* Every order in which the entries of s can be arranged.
SeqPerms(s) ==
    {[i \in 1..Len(s) |-> s[f[i]]] : f \in Permutations(1..Len(s))}

\* C4: two Trees holding the same entries (names unique), added in different
\* orders, serialize after sort() to identical bytes, hence get the same
\* address: whatever order the entries of the serialized tree are added in,
\* sort() then serialize() gives the bytes this tree gave.
C4_OrderIndependent ==
    (tree_io.stage \in {"serialized", "parsed"} /\ tree_io.sorted
        /\ UniqueNames(tree_io.added))
    => \A p \in SeqPerms(tree_io.added) :
          LET other == Tree_serialize(Tree_sort(p))
          IN  /\ other.ok
              /\ other.data = tree_io.bytes
              /\ hash_content(STR_tree, other.data)
                     = hash_content(STR_tree, tree_io.bytes)

C4_Witness ==
    /\ tree_io.stage = "serialized" /\ tree_io.sorted
    /\ UniqueNames(tree_io.added)
    /\ Len(tree_io.added) = MaxEntries
    /\ tree_io.added # tree

\* The key the claim sorts by: the name, with '/' appended for a directory.
ClaimKey(e) ==
    IF e.mode \in {MODE_DIR, MODE_DIR_PADDED} THEN Append(e.name, SLASH) ELSE e.name

Before(entries, a, b) ==
    \A i, j \in 1..Len(entries) : (entries[i] = a /\ entries[j] = b) => i < j

\* C5: after Tree::sort the entries (the ones that were added, no more and no
\* fewer) are in ascending byte order of their keys, a directory's key being
\* its name followed by '/'; file "lib" precedes directory "lib-extra" and
\* directory "lib" precedes file "lib0".
C5_SortedByKey ==
    tree_io.sorted =>
        /\ tree \in SeqPerms(tree_io.added)
        /\ \A i, j \in 1..Len(tree) :
              i < j => ~LexLess(ClaimKey(tree[j]), ClaimKey(tree[i]))
        /\ Before(tree, TreeEntry_file(NAME_lib, HASH_a),
                        TreeEntry_directory(NAME_lib_extra, HASH_0020))
        /\ Before(tree, TreeEntry_directory(NAME_lib, HASH_0c9f),
                        TreeEntry_new(MODE_EXEC, NAME_lib0, HASH_a))

C5_Witness ==
    /\ tree_io.sorted
    /\ tree = << TreeEntry_file(NAME_lib, HASH_a),
                 TreeEntry_directory(NAME_lib_extra, HASH_0020),
                 TreeEntry_directory(NAME_lib, HASH_0c9f) >>
    /\ tree_io.added # tree

\* C6: Tree round-trip: after sort(), parse(serialize()) succeeds and yields
\* the same entries (mode, name, address) in the same order.
C6_TreeRoundTrip ==
    (tree_io.stage = "parsed" /\ tree_io.sorted)
    => (tree_io.parsed.ok /\ tree_io.parsed.entries = tree)

C6_Witness ==
    /\ tree_io.stage = "parsed" /\ tree_io.sorted
    /\ Len(tree) = MaxEntries
    /\ \E i \in 1..Len(tree) : tree[i].hash = HASH_0020 /\ tree[i].name = NAME_a_b
    /\ tree_io.parsed.entries = tree

(***************************************************************************)
(* SpecCommit: Commits taken through serialize and parse                   *)
(***************************************************************************)
MaxParents == 2

\* "Test <test@test.com> 1000 +0000", the author of test_commit_roundtrip
AUTHOR_test ==
    Author_with_timestamp(<<84, 101, 115, 116>>,
        <<116, 101, 115, 116, 64, 116, 101, 115, 116, 46, 99, 111, 109>>,
        1000, <<43, 48, 48, 48, 48>>)
\* "John Doe <john@example.com> 1234567890 -0500"
AUTHOR_john ==
    Author_with_timestamp(<<74, 111, 104, 110, SP, 68, 111, 101>>,
        <<106, 111, 104, 110, 64, 101, 120, 97, 109, 112, 108, 101, 46, 99, 111, 109>>,
        1234567890, <<45, 48, 53, 48, 48>>)
\* " Bob <b@b> 0 +0000": a name that starts with a space (GIT_AUTHOR_NAME=" Bob")
AUTHOR_bob ==
    Author_with_timestamp(<<SP, 66, 111, 98>>, <<98, 64, 98>>, 0, <<43, 48, 48, 48, 48>>)

AuthorPool == {AUTHOR_test, AUTHOR_john, AUTHOR_bob}

\* "", "Test message", "Initial\n", "\nlead", "a\n\nb", "trail\n\n"
MessagePool ==
    { <<>>,
      <<84, 101, 115, 116, SP, 109, 101, 115, 115, 97, 103, 101>>,
      <<73, 110, 105, 116, 105, 97, 108, LF>>,
      <<LF, 108, 101, 97, 100>>,
      <<97, LF, LF, 98>>,
      <<116, 114, 97, 105, 108, LF, LF>> }

SeqsUpTo(S, n) == UNION {[1..k -> S] : k \in 0..n}

CommitPool ==
    { Commit_new(HASH_a, ps, a, c, m) :
        ps \in SeqsUpTo({HASH_0020, HASH_0c9f}, MaxParents),
        a \in AuthorPool, c \in AuthorPool, m \in MessagePool }

InitCommit ==
    /\ StoreInit
    /\ TreeInit
    /\ RepoInit
    /\ GraphIdle
    /\ RaceIdle
    /\ DiffIdle
    /\ AuthorIdle
    /\ \E c \in CommitPool :
          commit_io = [stage |-> "new", commit |-> c, text |-> <<>>,
                       parsed |-> [status |-> "err", commit |-> NoCommit]]

CommitSerialize ==
    /\ commit_io.stage = "new"
    /\ commit_io' = [commit_io EXCEPT !.stage = "serialized",
                                      !.text = Commit_serialize(commit_io.commit)]
    /\ UNCHANGED <<author_io, storeVars, treeVars, repoVars, graphVars, raceVars, diffVars>>

CommitParse ==
    /\ commit_io.stage = "serialized"
    /\ commit_io' = [commit_io EXCEPT !.stage = "parsed",
                                      !.parsed = Commit_parse(commit_io.text)]
    /\ UNCHANGED <<author_io, storeVars, treeVars, repoVars, graphVars, raceVars, diffVars>>

NextCommit == CommitSerialize \/ CommitParse

SpecCommit == InitCommit /\ [][NextCommit]_vars

HeadersReproduced ==
    /\ commit_io.parsed.status = "ok"
    /\ commit_io.parsed.commit.tree = commit_io.commit.tree
    /\ commit_io.parsed.commit.parents = commit_io.commit.parents
    /\ commit_io.parsed.commit.author = commit_io.commit.author
    /\ commit_io.parsed.commit.committer = commit_io.commit.committer

\* C7 as stated: for all Commits, parse(serialize()) reproduces the tree
\* address, the parent list and both the author and the committer records
\* exactly.
C7_AsStated == commit_io.stage = "parsed" => HeadersReproduced

Has(s, b) == \E i \in 1..Len(s) : s[i] = b

NoLineBreak(s) == ~Has(s, LF) /\ ~Has(s, CR)

\* An author whose fields hold none of the characters that delimit them in
\* the encoding: a name without '<', '>' or a line break and without leading
\* or trailing whitespace, an email without '>' or a line break, a non-empty
\* time zone without whitespace.
PlainAuthor(a) ==
    /\ NoLineBreak(a.name) /\ ~Has(a.name, LT) /\ ~Has(a.name, GT)
    /\ Trim(a.name) = a.name
    /\ NoLineBreak(a.email) /\ ~Has(a.email, GT)
    /\ Len(a.timezone) > 0
    /\ \A i \in 1..Len(a.timezone) : ~IsWhitespace(a.timezone[i])

PlainHeaders(c) ==
    /\ NoLineBreak(c.tree)
    /\ \A k \in 1..Len(c.parents) : NoLineBreak(c.parents[k])
    /\ PlainAuthor(c.author)
    /\ PlainAuthor(c.committer)

\* C7 (amended): for all Commits whose header fields hold none of their
\* delimiters (PlainHeaders), parse(serialize()) reproduces the tree address,
\* the parent list (same addresses, same order) and both the author and the
\* committer records (name, email, timestamp, timezone) exactly.
C7_HeaderRoundTrip ==
    (commit_io.stage = "parsed" /\ PlainHeaders(commit_io.commit))
    => HeadersReproduced

C7_Witness ==
    /\ commit_io.stage = "parsed"
    /\ PlainHeaders(commit_io.commit)
    /\ Len(commit_io.commit.parents) = MaxParents
    /\ commit_io.commit.author # commit_io.commit.committer
    /\ commit_io.parsed.commit.parents = commit_io.commit.parents

\* C8: for every message text, parsing the serialized commit recovers the
\* message verbatim, character for character.
C8_MessageRoundTrip ==
    commit_io.stage = "parsed"
    => /\ commit_io.parsed.status = "ok"
       /\ commit_io.parsed.commit.message = commit_io.commit.message

(***************************************************************************)
(* SpecBuild: an index filled by add_entry / remove_entry, and tree builds *)
(***************************************************************************)
MaxIndexEntries == 3

MaxBuilds == 1

PATH_a_txt == <<97, DOT, 116, 120, 116>>
PATH_dir_b_txt == <<100, 105, 114, SLASH, 98, DOT, 116, 120, 116>>
PATH_dir_c_txt == <<100, 105, 114, SLASH, 99, DOT, 116, 120, 116>>
PATH_x_y_f_txt == <<120, SLASH, 121, SLASH, 102, DOT, 116, 120, 116>>
\* "dir": a file that has the name of the directory of dir/b.txt
PATH_dir == <<100, 105, 114>>

\* Index entries offered to add_entry: a root-level file, two files of one
\* directory, a file two directories deep, and a file named as that directory.
IndexEntryPool ==
    { IndexEntry(PATH_a_txt, HASH_a, 1, 1000),
      IndexEntry(PATH_dir, HASH_0c9f, 4, 1000),
      IndexEntry(PATH_dir_b_txt, HASH_0020, 2, 1000),
      IndexEntry(PATH_dir_c_txt, HASH_0c9f, 3, 1000),
      IndexEntry(PATH_x_y_f_txt, HASH_a, 1, 1000) }

IndexAddEntry(entry) ==
    /\ entry.path \in DOMAIN index \/ Cardinality(DOMAIN index) < MaxIndexEntries
    /\ index' = Index_add_entry(index, entry)
    /\ index' # index
    /\ UNCHANGED <<storeVars, treeVars, commitVars, build, worktree, head_file, refs, graphVars, raceVars, diffVars>>

IndexRemoveEntry(path) ==
    /\ path \in DOMAIN index
    /\ index' = Index_remove_entry(index, path)
    /\ UNCHANGED <<storeVars, treeVars, commitVars, build, worktree, head_file, refs, graphVars, raceVars, diffVars>>

\* build_tree_from_index on the current index, for every order in which the
\* three hash maps may be iterated.
BuildTree ==
    /\ build.n < MaxBuilds
    /\ \E dir_files \in GroupingOutcomes(index),
          dir_levels \in DirLevelsOutcomes({ParentDir(p) : p \in DOMAIN index}),
          built_order \in IterationOrders({ParentDir(p) : p \in DOMAIN index}) :
         \E r \in {build_tree_from_index(objects_dir, index, dir_files,
                                         dir_levels, built_order)} :
            /\ objects_dir' = r.od
            /\ puts' = RecordWritten(puts, r.written)
            /\ build' = [n |-> build.n + 1, input |-> index,
                         written |-> r.written, result |-> r.result]
    /\ UNCHANGED <<ret, treeVars, commitVars, index, worktree, head_file, refs, graphVars, raceVars, diffVars>>

NextBuild ==
    \/ \E entry \in IndexEntryPool : IndexAddEntry(entry)
    \/ \E path \in DOMAIN index : IndexRemoveEntry(path)
    \/ BuildTree

SpecBuild == Init /\ [][NextBuild]_vars

\* The Tree stored at an address, parsed.
TreeAt(od, hash) ==
    LET g == read_object(od, hash)
    IN  IF g.ok /\ g.object_type = STR_tree THEN Tree_parse(g.content)
        ELSE [ok |-> FALSE, entries |-> <<>>]

EntrySet(t) == {t.entries[i] : i \in DOMAIN t.entries}

\* The file entries a directory d should hold for the index ix.
FileEntriesOf(ix, d) ==
    {TreeEntry_file(Path_file_name(p).name, ix[p].hash) :
        p \in {q \in DOMAIN ix : ParentDir(q) = d}}

HoldsExactly(t, S) ==
    t.ok /\ EntrySet(t) = S /\ Len(t.entries) = Cardinality(S)

RootFiles(ix) == {p \in DOMAIN ix : SlashCount(p) = 0}

SubDirs(ix) == {ParentDir(p) : p \in {q \in DOMAIN ix : SlashCount(q) = 1}}

\* C9: for an index whose paths are root-level files or files one directory
\* deep, whatever the iteration orders, the build returns a root Tree holding
\* exactly one file entry per root-level path (with its address) and one
\* directory entry per distinct subdirectory, each pointing to a child Tree
\* holding exactly that directory's files.  Stated for the indexes that hold
\* at least one root-level file.
C9_TwoLevelBuild ==
    ( /\ build.n > 0
      /\ RootFiles(build.input) # {}
      /\ \A p \in DOMAIN build.input : SlashCount(p) <= 1 )
    => /\ build.result.ok
       /\ LET ix == build.input
              root == TreeAt(objects_dir, build.result.hash)
          IN  /\ root.ok
              /\ Len(root.entries) =
                     Cardinality(RootFiles(ix)) + Cardinality(SubDirs(ix))
              /\ FileEntriesOf(ix, <<>>) \subseteq EntrySet(root)
              /\ \A d \in SubDirs(ix) :
                    \E e \in EntrySet(root) :
                       /\ is_tree(e)
                       /\ e.name = d
                       /\ HoldsExactly(TreeAt(objects_dir, e.hash),
                                       FileEntriesOf(ix, d))

\* Every directory above a staged path, the root included.
AllDirs(ix) ==
    {<<>>} \cup UNION {{SubSeq(p, 1, i - 1) : i \in {j \in 1..Len(p) : p[j] = SLASH}} :
                          p \in DOMAIN ix}

\* The directories that hold no file directly, only subdirectories.
BareDirs(ix) ==
    IF DOMAIN ix = {} THEN {}
    ELSE {d \in AllDirs(ix) : \A p \in DOMAIN ix : ParentDir(p) # d}

\* The address of the Tree of directory comps[k..] below the Tree at hash.
RECURSIVE Descend(_, _, _, _)
Descend(od, hash, comps, k) ==
    IF k > Len(comps) THEN [ok |-> TRUE, hash |-> hash]
    ELSE LET t == TreeAt(od, hash)
             next == {e \in EntrySet(t) : is_tree(e) /\ e.name = comps[k]}
         IN  IF ~t.ok \/ next = {} THEN [ok |-> FALSE, hash |-> <<>>]
             ELSE Descend(od, (CHOOSE e \in next : TRUE).hash, comps, k + 1)

\* C10: when some directory of the index (the root or an intermediate one)
\* has no direct file entries but only subdirectories containing files, the
\* build succeeds and that directory gets a valid Tree holding only
\* directory-type entries.
C10_BareDirectoryBuild ==
    (build.n > 0 /\ BareDirs(build.input) # {})
    => /\ build.result.ok
       /\ \A d \in BareDirs(build.input) :
             LET at == Descend(objects_dir, build.result.hash,
                               IF d = <<>> THEN <<>> ELSE Split(d, SLASH), 1)
                 t == TreeAt(objects_dir, at.hash)
             IN  /\ at.ok
                 /\ t.ok
                 /\ t.entries # <<>>
                 /\ \A e \in EntrySet(t) : is_tree(e)

\* The entries of the k-th object a build wrote, parsed as a Tree.
WrittenTree(k) == Tree_parse(build.written[k].content)

\* C11: every Tree object written by the tree builder, for any index reached
\* through add_entry calls, has entries that are unique by name, even when the
\* index holds both a path "a" and a path "a/b".
C11_TreeNamesUnique ==
    \A k \in 1..Len(build.written) :
        build.written[k].object_type = STR_tree
        => WrittenTree(k).ok /\ UniqueNames(WrittenTree(k).entries)

(***************************************************************************)
(* SpecRepo: a repository driven through the commands that write objects:  *)
(* hash-object, add, write-tree, commit-tree and commit                    *)
(***************************************************************************)
MaxStored == 3

MaxCommits == 1

\* "v1", "v2"
TEXT_v1 == <<118, 49>>
TEXT_v2 == <<118, 50>>

\* What the user may write into the working directory.
FilePool == { <<PATH_a_txt, TEXT_v1>>, <<PATH_dir_b_txt, TEXT_v2>> }

\* Readings of the system clock.
Clock == {1000}

\* "Initial commit"
TEXT_initial_commit ==
    <<73, 110, 105, 116, 105, 97, 108, SP, 99, 111, 109, 109, 105, 116>>

\* Tree and parent arguments given to commit-tree: any stored address or one
\* that names nothing; no parent or one.
TreeArgs == {p[1] \o p[2] : p \in DOMAIN objects_dir.files} \cup {HASH_a}

ParentArgs == {<<>>, <<HASH_a>>}

StoreHasRoom == Cardinality(DOMAIN objects_dir.files) < MaxStored

CommitsStored == Cardinality({k \in DOMAIN puts : k[1] = STR_commit})

\* The user edits a file of the working directory.
WriteFile(path, content) ==
    /\ worktree' = [p \in DOMAIN worktree \cup {path} |->
                       IF p = path THEN content ELSE worktree[p]]
    /\ worktree' # worktree
    /\ UNCHANGED <<storeVars, treeVars, commitVars, index, build, head_file, refs, graphVars, raceVars, diffVars>>

\* hash-object [-w] <file>
HashObject(path, write) ==
    /\ path \in DOMAIN worktree
    /\ StoreHasRoom
    /\ IF write
       THEN \E st \in {store_object(objects_dir, STR_blob, worktree[path])} :
              /\ objects_dir' = st.od
              /\ puts' = RecordWritten(puts, <<[object_type |-> STR_blob,
                                                content |-> worktree[path],
                                                hash |-> st.hash]>>)
              /\ ret' = [op |-> "hash-object", status |-> "ok", hash |-> st.hash]
       ELSE /\ ret' = [op |-> "hash-object", status |-> "ok",
                       hash |-> hash_content(STR_blob, worktree[path])]
            /\ UNCHANGED <<objects_dir, puts>>
    /\ UNCHANGED <<treeVars, commitVars, repoVars, graphVars, raceVars, diffVars>>

\* add <file>: load the index, stage the file, save the index.  So many
\* objects are stored at most.
AddUpTo(path, max_stored) ==
    /\ Cardinality(DOMAIN objects_dir.files) < max_stored
    /\ IF path \notin DOMAIN worktree
       THEN /\ ret' = [op |-> "add", status |-> "err", hash |-> <<>>]
            /\ UNCHANGED <<objects_dir, puts, index>>
       ELSE \E mtime \in Clock :
              \E r \in {add_file_to_index(objects_dir, index, worktree, path, mtime)} :
                 /\ objects_dir' = r.od
                 /\ puts' = RecordWritten(puts, r.written)
                 /\ index' = r.index
                 /\ ret' = [op |-> "add", status |-> "ok",
                            hash |-> r.index[path].hash]
    /\ UNCHANGED <<treeVars, commitVars, build, worktree, head_file, refs, graphVars, raceVars, diffVars>>

Add(path) == AddUpTo(path, MaxStored)

\* write-tree, run at the root of the working directory
WriteTree ==
    /\ StoreHasRoom
    /\ \E r \in {write_tree_recursive(objects_dir, worktree, <<>>)} :
         /\ objects_dir' = r.od
         /\ puts' = RecordWritten(puts, r.written)
         /\ ret' = [op |-> "write-tree", status |-> "ok", hash |-> r.hash]
    /\ UNCHANGED <<treeVars, commitVars, repoVars, graphVars, raceVars, diffVars>>

\* commit-tree <tree> [-p <parent>] -m <message>
CommitTree(tree_hash, parents, message) ==
    /\ StoreHasRoom
    /\ CommitsStored < MaxCommits
    /\ \E now1, now2 \in Clock :
         /\ now1 <= now2
         /\ \E r \in {commit_tree_run(objects_dir, tree_hash, parents, message,
                                      AUTHOR_test.name, AUTHOR_test.email,
                                      now1, now2)} :
               /\ objects_dir' = r.od
               /\ puts' = RecordWritten(puts, r.written)
               /\ ret' = [op |-> "commit-tree", status |-> r.status, hash |-> r.hash]
    /\ UNCHANGED <<treeVars, commitVars, repoVars, graphVars, raceVars, diffVars>>

\* Mutant: the index is cleared and saved once the commit is made.
IndexAfterCommit_cleared(ix, status) == IF status = "ok" THEN Index_new ELSE ix

\* The index file after commit::run: the index is loaded, read, and never
\* saved.
IndexAfterCommit(ix, status) == ix

\* Mutant: the commit is made without a parent.
HeadParents_none(parent) == <<>>

\* The parents commit gives commit-tree: what HEAD names, if anything.
HeadParents(parent) == IF parent.some THEN <<parent.hash>> ELSE <<>>

\* commit -m <message>: nothing on an empty index; else build the tree, make
\* the commit on top of what HEAD names, and move the ref.  So many objects
\* and commits are stored at most.
CommitUpTo(message, max_stored, max_commits) ==
    /\ IF DOMAIN index = {}
       THEN /\ ret' = [op |-> "commit", status |-> "nothing to commit", hash |-> <<>>]
            /\ UNCHANGED <<objects_dir, puts, head_file, refs>>
       ELSE \E dir_files \in GroupingOutcomes(index),
               dir_levels \in DirLevelsOutcomes({ParentDir(p) : p \in DOMAIN index}),
               built_order \in IterationOrders({ParentDir(p) : p \in DOMAIN index}),
               now1 \in Clock, now2 \in Clock :
              /\ Cardinality(DOMAIN objects_dir.files) < max_stored
              /\ CommitsStored < max_commits
              /\ now1 <= now2
              /\ \E b \in {build_tree_from_index(objects_dir, index, dir_files,
                                                 dir_levels, built_order)} :
                   IF ~b.result.ok
                   THEN /\ objects_dir' = b.od
                        /\ puts' = RecordWritten(puts, b.written)
                        /\ ret' = [op |-> "commit", status |-> "err", hash |-> <<>>]
                        /\ UNCHANGED <<head_file, refs>>
                   ELSE \E c \in {commit_tree_run(b.od, b.result.hash,
                                      HeadParents(read_head(head_file, refs)),
                                      message, AUTHOR_test.name, AUTHOR_test.email,
                                      now1, now2)} :
                          /\ objects_dir' = c.od
                          /\ puts' = RecordWritten(puts, b.written \o c.written)
                          /\ ret' = [op |-> "commit", status |-> c.status,
                                     hash |-> c.hash]
                          /\ IF c.status = "ok"
                             THEN \E moved \in {update_ref(head_file, refs, c.hash)} :
                                    head_file' = moved.head /\ refs' = moved.refs
                             ELSE UNCHANGED <<head_file, refs>>
    /\ index' = IndexAfterCommit(index, ret'.status)
    /\ UNCHANGED <<treeVars, commitVars, build, worktree, graphVars, raceVars, diffVars>>

Commit(message) == CommitUpTo(message, MaxStored, MaxCommits)

NextRepo ==
    \/ \E f \in FilePool : WriteFile(f[1], f[2])
    \/ \E path \in {f[1] : f \in FilePool}, write \in BOOLEAN : HashObject(path, write)
    \/ \E path \in {f[1] : f \in FilePool} : Add(path)
    \/ WriteTree
    \/ \E tree_hash \in TreeArgs, parents \in ParentArgs :
          CommitTree(tree_hash, parents, TEXT_initial_commit)
    \/ Commit(TEXT_initial_commit)

SpecRepo == Init /\ [][NextRepo]_vars

\* C2: no step of put, add, commit, write-tree or commit-tree deletes or
\* rewrites an object: every address that holds an object keeps holding the
\* same bytes, and get of that address keeps returning the same result.
C2_StoreImmutable ==
    [][ \A p \in DOMAIN objects_dir.files :
          /\ p \in DOMAIN objects_dir'.files
          /\ objects_dir'.files[p] = objects_dir.files[p]
          /\ read_object(objects_dir', p[1] \o p[2])
                = read_object(objects_dir, p[1] \o p[2]) ]_vars

\* A commit has been made: the store holds a blob, a tree and a commit, each
\* still read back as it was put.
C2_Witness ==
    /\ ret.op = "commit"
    /\ ret.status = "ok"
    /\ \A t \in ObjectTypes : \E k \in DOMAIN puts : k[1] = t
    /\ \A k \in DOMAIN puts :
          LET g == read_object(objects_dir, puts[k])
          IN  g.ok /\ g.object_type = k[1] /\ g.content = k[2]

(***************************************************************************)
(* SpecGraph: log and graph run over stores whose commits name each other   *)
(* in every shape, cycles included                                         *)
(***************************************************************************)
ADDR_a == <<97, 97, 97, 97>>
ADDR_b == <<98, 98, 98, 98>>
ADDR_c == <<99, 99, 99, 99>>

GraphAddresses == {ADDR_a, ADDR_b, ADDR_c}

\* The address after x in the circle aaaa, bbbb, cccc, and the one before it.
NextAddr(x) == IF x = ADDR_a THEN ADDR_b ELSE IF x = ADDR_b THEN ADDR_c ELSE ADDR_a

PrevAddr(x) == NextAddr(NextAddr(x))

\* "fix\nmore": a message of two lines
TEXT_fix_more == <<102, 105, 120, LF, 109, 111, 114, 101>>

\* "tree tttt\n\nfix": commit content that names no author
TEXT_no_author == STR_tree_sp \o <<116, 116, 116, 116, LF, LF, 102, 105, 120>>

\* The bytes of the object file store_object writes for a type and content.
ObjectFile(object_type, content) ==
    ZlibEncode(ObjectHeader(object_type, content) \o content)

CommitFile(parents) ==
    ObjectFile(STR_commit,
        Commit_serialize(Commit_new(<<116, 116, 116, 116>>, parents,
                                    AUTHOR_test, AUTHOR_test, TEXT_fix_more)))

\* What the file at an address may hold: nothing (no file), a blob, a commit
\* object that does not parse, or a commit whose parents are none, the next
\* address, the one before, itself, or two of them in either order.
GraphKinds ==
    {"absent", "blob", "bad", "root", "next", "prev", "self", "next_prev", "prev_next"}

GraphFile ==
    [x \in GraphAddresses |->
        [k \in GraphKinds \ {"absent"} |->
            CASE k = "blob" -> ObjectFile(STR_blob, TEXT_fix_more)
              [] k = "bad" -> ObjectFile(STR_commit, TEXT_no_author)
              [] k = "root" -> CommitFile(<<>>)
              [] k = "next" -> CommitFile(<<NextAddr(x)>>)
              [] k = "prev" -> CommitFile(<<PrevAddr(x)>>)
              [] k = "self" -> CommitFile(<<x>>)
              [] k = "next_prev" -> CommitFile(<<NextAddr(x), PrevAddr(x)>>)
              [] k = "prev_next" -> CommitFile(<<PrevAddr(x), NextAddr(x)>>)]]

GraphStore(kind) ==
    [dirs |-> {ObjectPath(x)[1] : x \in {y \in GraphAddresses : kind[y] # "absent"}},
     files |-> [path \in {ObjectPath(x) : x \in {y \in GraphAddresses : kind[y] # "absent"}}
                  |-> GraphFile[path[1] \o path[2]][kind[path[1] \o path[2]]]]]

\* "refs/heads/dev"
STR_refs_heads_dev == STR_refs_heads \o <<100, 101, 118>>

\* The branches: none yet, main at aaaa, or main at aaaa and dev at bbbb.
RefsPool ==
    { EmptyFiles,
      (STR_refs_heads_main :> (ADDR_a \o <<LF>>)),
      (STR_refs_heads_main :> (ADDR_a \o <<LF>>))
          @@ (STR_refs_heads_dev :> (ADDR_b \o <<LF>>)) }

InitGraph ==
    /\ \E kind \in [GraphAddresses -> GraphKinds] : objects_dir = GraphStore(kind)
    /\ puts = EmptyFiles
    /\ ret = [op |-> "init"]
    /\ TreeInit
    /\ CommitIdle
    /\ index = Index_new
    /\ build = [n |-> 0, input |-> Index_new, written |-> <<>>,
                result |-> Err("no build yet")]
    /\ worktree = EmptyFiles
    /\ head_file = STR_ref_colon \o STR_refs_heads_main \o <<LF>>
    /\ refs \in RefsPool
    /\ GraphIdle
    /\ RaceIdle
    /\ DiffIdle

\* log [--oneline]: read HEAD; with no commit yet report it and return, else
\* enter traverse_commits.
LogRun(oneline) ==
    /\ walk.pc = "idle"
    /\ collect.pc = "idle"
    /\ walk' = IF read_head(head_file, refs).some
               THEN [walk EXCEPT !.pc = "loop", !.oneline = oneline,
                                 !.start = read_head(head_file, refs).hash,
                                 !.current = read_head(head_file, refs).hash]
               ELSE [walk EXCEPT !.pc = "done", !.oneline = oneline]
    /\ UNCHANGED <<storeVars, treeVars, commitVars, repoVars, collect, raceVars, diffVars>>

\* traverse_commits: the loop condition and one iteration, or the return.
LogStep ==
    /\ walk.pc = "loop"
    /\ walk' = traverse_commits_step(objects_dir, walk)
    /\ UNCHANGED <<storeVars, treeVars, commitVars, repoVars, collect, raceVars, diffVars>>

\* graph: collect_all_commits up to its loop, read_dir handing out the
\* branch files in some order.
GraphRun(order) ==
    /\ walk.pc = "idle"
    /\ collect.pc = "idle"
    /\ collect' = [collect EXCEPT !.pc = "loop",
                                  !.starts = CollectStarts(head_file, refs, order),
                                  !.to_visit = CollectStarts(head_file, refs, order)]
    /\ UNCHANGED <<storeVars, treeVars, commitVars, repoVars, walk, raceVars, diffVars>>

\* collect_all_commits: one turn of its loop, or the return.
GraphStep ==
    /\ collect.pc = "loop"
    /\ collect' = collect_all_commits_step(objects_dir, collect)
    /\ UNCHANGED <<storeVars, treeVars, commitVars, repoVars, walk, raceVars, diffVars>>

\* graph: generate_ascii_graph on the commits collected, branch_heads handing
\* out its keys in some order.
GraphDraw(order) ==
    /\ collect.pc = "done"
    /\ collect' = [collect EXCEPT
                      !.pc = "drawn",
                      !.levels = generate_ascii_graph_levels(collect.commits,
                                     LevelStarts(collect.commits, head_file, refs, order))]
    /\ UNCHANGED <<storeVars, treeVars, commitVars, repoVars, walk, raceVars, diffVars>>

NextGraph ==
    \/ \E oneline \in BOOLEAN : LogRun(oneline)
    \/ LogStep
    \/ \E order \in IterationOrders(BranchFiles(refs)) : GraphRun(order)
    \/ GraphStep
    \/ \E order \in IterationOrders(BranchHeads(collect.commits, refs)) : GraphDraw(order)

SpecGraph == InitGraph /\ [][NextGraph]_vars

\* No address occurs twice in a history of reads.
ReadOnce(reads) == \A i, j \in 1..Len(reads) : i # j => reads[i] # reads[j]

\* C12: the first-parent walk started at any address of any stored commit
\* graph, including one whose parent links form a cycle, terminates, and
\* hands each address to read_object at most once.  It terminates because
\* every turn of the loop either returns or reads one more address, and the
\* reads, all different, are never more than the stored objects and one.
C12_CycleSafety ==
    /\ [](/\ ReadOnce(walk.reads)
          /\ Len(walk.reads) <= Cardinality(DOMAIN objects_dir.files) + 1)
    /\ [][walk.pc = "loop"
            => \/ walk'.pc = "done"
               \/ /\ walk'.pc = "loop"
                  /\ Len(walk'.reads) = Len(walk.reads) + 1]_vars

\* The walk went round the cycle aaaa -> bbbb -> cccc -> aaaa and returned.
C12_Witness ==
    /\ walk.pc = "done"
    /\ walk.status = "ok"
    /\ walk.reads = <<ADDR_a, ADDR_b, ADDR_c>>
    /\ walk.current = ADDR_a
    /\ Len(walk.output) = 3

\* What an address holds, from what read_object and Commit::parse give for
\* it: kind "unreadable", "other" (an object that is no commit), "unparsed" (a
\* commit object that Commit::parse rejects) or "commit", and the commit.
ParsedView(parsed) ==
    IF parsed.status # "ok" THEN [kind |-> "unparsed", commit |-> NoCommit]
    ELSE [kind |-> "commit", commit |-> parsed.commit]

ObjectView(object) ==
    IF ~object.ok THEN [kind |-> "unreadable", commit |-> NoCommit]
    ELSE IF object.object_type # STR_commit THEN [kind |-> "other", commit |-> NoCommit]
    ELSE ParsedView(Commit_parse(object.content))

\* The view of every address of the store.
StoreView(od) ==
    <<ObjectView(read_object(od, ADDR_a)),
      ObjectView(read_object(od, ADDR_b)),
      ObjectView(read_object(od, ADDR_c))>>

At(view, x) ==
    IF x = ADDR_a THEN view[1] ELSE IF x = ADDR_b THEN view[2]
    ELSE IF x = ADDR_c THEN view[3]
    ELSE [kind |-> "unreadable", commit |-> NoCommit]

\* The address a line of the log names: the text before the first space of a
\* one-line entry, the text after "commit " on the first line of a full one.
YieldedHash(line, oneline) ==
    IF oneline THEN SubSeq(line, 1, Position(line, SP) - 1)
    ELSE SubSeq(line, Len(STR_commit_sp) + 1, Position(line, LF) - 1)

\* The addresses of the commits the walk has yielded, in order.
Yielded(w) == [i \in 1..Len(w.output) |-> YieldedHash(w.output[i], w.oneline)]

\* The walk yielded commits of the store, each line made from the commit at
\* its address, the start first and each later one parents[0] of the one
\* before it.
FirstParentChain(view, w, y) ==
    /\ y # <<>> => y[1] = w.start
    /\ \A i \in 1..Len(y) :
          /\ At(view, y[i]).kind = "commit"
          /\ w.output[i] = format_commit(At(view, y[i]).commit, y[i], w.oneline)
          /\ i > 1 => /\ At(view, y[i - 1]).commit.parents # <<>>
                      /\ y[i] = At(view, y[i - 1]).commit.parents[1]
    /\ \A i, j \in 1..Len(y) : i # j => y[i] # y[j]

\* The last commit yielded has no parent, or its first parent was yielded.
StopsAtEndOrRevisit(view, y) ==
    \/ At(view, y[Len(y)]).commit.parents = <<>>
    \/ \E i \in 1..Len(y) : y[i] = At(view, y[Len(y)]).commit.parents[1]

C18_NonCommitEndsWalk ==
    walk.pc = "done" /\ walk.reads # <<>>
    => \E view \in {StoreView(objects_dir)} :
          At(view, walk.reads[Len(walk.reads)]).kind = "other"
          => /\ walk.status = "ok"
             /\ Len(walk.output) = Len(walk.reads) - 1
             /\ \A i \in 1..Len(walk.output) :
                   /\ At(view, walk.reads[i]).kind = "commit"
                   /\ walk.output[i] = format_commit(At(view, walk.reads[i]).commit,
                                                     walk.reads[i], walk.oneline)

\* The walk read the commits aaaa and bbbb, then the blob at cccc, and
\* returned the two lines.
C18_Witness ==
    /\ walk.pc = "done"
    /\ walk.status = "ok"
    /\ walk.reads = <<ADDR_a, ADDR_b, ADDR_c>>
    /\ Len(walk.output) = 2
    /\ At(StoreView(objects_dir), ADDR_c).kind = "other"

\* The addresses reachable from a set of addresses through every parent of
\* every commit among them.
RECURSIVE Reachable(_, _)
Reachable(view, from) ==
    IF \A x \in from : At(view, x).kind = "commit"
                         => Range(At(view, x).commit.parents) \subseteq from
    THEN from
    ELSE Reachable(view, from \cup UNION {Range(At(view, x).commit.parents) :
                                             x \in {y \in from : At(view, y).kind = "commit"}})

ReachableCommits(view, from) ==
    {x \in Reachable(view, from) : At(view, x).kind = "commit"}

\* C14: the multi-root traversal returns exactly the commits reachable from
\* its starting addresses through all parent links, each once and under its
\* own address with the parents it records, whatever the order of the
\* starting addresses and of discovery: the result is a function of the set
\* of starting addresses and of the store.  It terminates, cycles of parent
\* links included: no address is read twice, and every turn of the loop
\* returns, reads one more address, or shortens the queue without reading.
C14_AllParentsClosure ==
    /\ [](collect.pc = "done"
            => \E view \in {StoreView(objects_dir)} :
                  /\ DOMAIN collect.commits = ReachableCommits(view, Range(collect.starts))
                  /\ \A x \in DOMAIN collect.commits :
                        collect.commits[x] = CommitNode(x, At(view, x).commit))
    /\ [](ReadOnce(collect.reads) /\ Range(collect.reads) \subseteq GraphAddresses)
    /\ [][collect.pc = "loop"
            => \/ collect'.pc = "done"
               \/ /\ collect'.pc = "loop"
                  /\ Len(collect'.reads) = Len(collect.reads) + 1
               \/ /\ collect'.pc = "loop"
                  /\ collect'.reads = collect.reads
                  /\ Len(collect'.to_visit) < Len(collect.to_visit)]_vars

\* The traversal from main = HEAD = aaaa returned aaaa, bbbb and cccc, where
\* aaaa is a merge of bbbb and cccc, cccc is reachable through the second
\* parent only, and cccc names aaaa as its parent: a cycle.
C14_Witness ==
    /\ collect.pc = "done"
    /\ Range(collect.starts) = {ADDR_a}
    /\ DOMAIN collect.commits = {ADDR_a, ADDR_b, ADDR_c}
    /\ collect.commits[ADDR_a].parents = <<ADDR_b, ADDR_c>>
    /\ collect.commits[ADDR_b].parents = <<>>
    /\ collect.commits[ADDR_c].parents = <<ADDR_a>>

\* The object type stored at an address, <<>> when get gives none.
TypeAt(object) == IF object.ok THEN object.object_type ELSE <<>>

\* The tree a stored commit names.
TreeOfCommit(object) ==
    IF object.ok /\ object.object_type = STR_commit
    THEN Commit_parse(object.content).commit.tree ELSE <<>>

\* C15: commit-tree succeeds only if the tree address it was given names an
\* existing object of type tree: the commit it has just written names a tree
\* that get returns as a Tree.
C15_TreeValidated ==
    ret.op = "commit-tree" /\ ret.status = "ok"
    => \E tree_hash \in {TreeOfCommit(read_object(objects_dir, ret.hash))} :
          TypeAt(read_object(objects_dir, tree_hash)) = STR_tree

(***************************************************************************)
(* Spec: Commit::parse and Author::parse given texts that were not written *)
(* by serialize                                                            *)
(***************************************************************************)
LINE_tree == STR_tree_sp \o HASH_a

LINE_parent == STR_parent_sp \o HASH_0020

LINE_author == STR_author_sp \o Author_serialize(AUTHOR_test)

LINE_committer == STR_committer_sp \o Author_serialize(AUTHOR_john)

\* Header sections: every selection of the four header lines, in order.
HeaderPool ==
    { SelectSeq(<<LINE_tree, LINE_parent, LINE_author, LINE_committer>>,
                LAMBDA line : line \in keep) :
        keep \in SUBSET {LINE_tree, LINE_parent, LINE_author, LINE_committer} }

\* Commit texts: a header section alone, or followed by the blank line and
\* the message "fix\nmore".
CommitTextPool ==
    { Join(h \o rest, LF) : h \in HeaderPool, rest \in {<<>>, <<<<>>, TEXT_fix_more>>} }

\* "Bob <b@b> 0 +0000", and the same with no '<', no '>', a '>' before the
\* '<', one token after the '>', none, and a timestamp that is no number.
AuthorTextPool ==
    { <<66, 111, 98, SP, LT, 98, 64, 98, GT, SP, ZERO, SP, 43, ZERO, ZERO, ZERO, ZERO>>,
      <<66, 111, 98, SP, 98, 64, 98, GT, SP, ZERO, SP, 43, ZERO, ZERO, ZERO, ZERO>>,
      <<66, 111, 98, SP, LT, 98, 64, 98, SP, ZERO, SP, 43, ZERO, ZERO, ZERO, ZERO>>,
      <<66, 111, 98, GT, SP, LT, 98, 64, 98, SP, ZERO, SP, 43, ZERO, ZERO, ZERO, ZERO>>,
      <<66, GT, 111, 98, SP, LT, 98, 64, 98, GT, SP, ZERO, SP, 43, ZERO, ZERO, ZERO, ZERO>>,
      <<66, 111, 98, SP, LT, 98, 64, 98, GT, SP, ZERO>>,
      <<66, 111, 98, SP, LT, 98, 64, 98, GT>>,
      <<66, 111, 98, SP, LT, 98, 64, 98, GT, SP, 120, SP, 43, ZERO, ZERO, ZERO, ZERO>> }

InitParse ==
    /\ StoreInit
    /\ TreeInit
    /\ RepoInit
    /\ GraphIdle
    /\ RaceIdle
    /\ DiffIdle
    /\ \E text \in CommitTextPool :
          commit_io = [stage |-> "serialized", commit |-> NoCommit, text |-> text,
                       parsed |-> [status |-> "err", commit |-> NoCommit]]
    /\ \E text \in AuthorTextPool :
          author_io = [stage |-> "text", text |-> text,
                       parsed |-> [status |-> "err", author |-> NoAuthor]]

\* Author::parse of the text held.
AuthorParse ==
    /\ author_io.stage = "text"
    /\ author_io' = [author_io EXCEPT !.stage = "parsed",
                                      !.parsed = Author_parse(author_io.text)]
    /\ UNCHANGED <<commit_io, storeVars, treeVars, repoVars, graphVars, raceVars, diffVars>>

NextParse == CommitParse \/ AuthorParse

SpecParse == InitParse /\ [][NextParse]_vars

\* The lines of the header section of a text: those before the first empty
\* line.
HeaderLines(content) ==
    LET lines == Lines(content)
        blank == {k \in 1..Len(lines) : lines[k] = <<>>}
    IN  IF blank = {} THEN lines
        ELSE SubSeq(lines, 1, (CHOOSE k \in blank : \A j \in blank : k <= j) - 1)

HasHeader(content, prefix) ==
    \E k \in 1..Len(HeaderLines(content)) : HasPrefix(HeaderLines(content)[k], prefix)

\* C16: Commit::parse fails whenever the header section lacks a "tree " line,
\* an "author " line or a "committer " line: a text it returns a Commit for
\* has all three.
C16_MissingFieldFails ==
    commit_io.stage = "parsed" /\ commit_io.parsed.status = "ok"
    => /\ HasHeader(commit_io.text, STR_tree_sp)
       /\ HasHeader(commit_io.text, STR_author_sp)
       /\ HasHeader(commit_io.text, STR_committer_sp)

\* C19: Author::parse reports every malformed text to its caller as an error
\* result and never aborts the program.
C19_NoAbort ==
    author_io.stage = "parsed" => author_io.parsed.status \in {"ok", "err"}

(***************************************************************************)
(* Spec: get on a store whose files were damaged after they were written   *)
(***************************************************************************)
\* The stream z stops before its end: a prefix of a stored-block stream.
ZlibTruncated(z) ==
    /\ Len(z) >= 1 => z[1] = 120
    /\ Len(z) >= 2 => z[2] = 156
    /\ Len(z) >= 3 => z[3] = 1
    /\ Len(z) >= 7 => /\ z[6] = 255 - z[4]
                      /\ z[7] = 255 - z[5]
                      /\ Len(z) < z[4] + 256 * z[5] + 11

\* The bytes of the block that a truncated stream still holds.
ZlibPartial(z) ==
    IF Len(z) <= 7 THEN <<>>
    ELSE SubSeq(z, 8, IF Len(z) < 7 + z[4] + 256 * z[5] THEN Len(z)
                      ELSE 7 + z[4] + 256 * z[5])

\* ZlibDecoder::read_to_end: what the decoder may give.  A stream that stops
\* before its end is an error or, the decoder reporting the end of its input
\* as the end of the data, the bytes decoded so far.
ZlibDecodeOutcomes(z) ==
    IF ~ZlibDecode(z).ok /\ ZlibTruncated(z)
    THEN {ZlibDecode(z), [ok |-> TRUE, data |-> ZlibPartial(z)]}
    ELSE {ZlibDecode(z)}

\* read_object, over what the decoder may give.
ReadOutcomes(od, hash) ==
    IF Len(hash) < 4 THEN {Err("hash too short")}
    ELSE IF ~Exists(od, ObjectPath(hash)) THEN {Err("object not found")}
    ELSE {ReadInflated(z) : z \in ZlibDecodeOutcomes(od.files[ObjectPath(hash)])}

\* "abc"
ADDR_short == <<97, 98, 99>>

\* "blob 5\0abc", "blob 3abc", "blob\0abc", "blob x\0abc", "blob 3 x\0abc"
RAW_mismatch == STR_blob \o <<SP, 53, NUL, 97, 98, 99>>

RAW_no_nul == STR_blob \o <<SP, 51, 97, 98, 99>>

RAW_no_size == STR_blob \o <<NUL, 97, 98, 99>>

RAW_size_text == STR_blob \o <<SP, 120, NUL, 97, 98, 99>>

RAW_three_fields == STR_blob \o <<SP, 51, SP, 120, NUL, 97, 98, 99>>

\* The file with its last n bytes lost.
CutTail(z, n) == SubSeq(z, 1, Len(z) - n)

\* What the file at an address may hold: an object as store_object writes
\* it; bytes that are no zlib stream; streams whose data is no object; a
\* stream with a wrong checksum; streams cut short in the checksum, in the
\* content, in the header of the object and in their own header; nothing.
DamagedFiles ==
    { ObjectFile(STR_blob, TEXT_fix_more),
      <<1, 2, 3, 4, 5, 6, 7, 8, 9, 10, 11, 12>>,
      ZlibEncode(RAW_mismatch),
      ZlibEncode(RAW_no_nul),
      ZlibEncode(RAW_no_size),
      ZlibEncode(RAW_size_text),
      ZlibEncode(RAW_three_fields),
      CutTail(ZlibEncode(RAW_mismatch), 1) \o <<0>>,
      CutTail(ObjectFile(STR_blob, TEXT_fix_more), 2),
      CutTail(ObjectFile(STR_blob, TEXT_fix_more), 4),
      CutTail(ObjectFile(STR_blob, TEXT_fix_more), 7),
      CutTail(ObjectFile(STR_blob, TEXT_fix_more), 14),
      CutTail(ObjectFile(STR_blob, TEXT_fix_more), 18),
      <<>> }

\* A store with any file at aaaa, an object or a cut one or nothing at bbbb,
\* and an object or nothing at the path the address "abc" would name.
DamagedStores ==
    { [dirs |-> {p[1] : p \in DOMAIN files}, files |-> files] :
        files \in
          { (ObjectPath(ADDR_a) :> fa) @@ fb @@ fs :
              fa \in DamagedFiles,
              fb \in { EmptyFiles,
                       (ObjectPath(ADDR_b) :> ObjectFile(STR_tree, <<>>)),
                       (ObjectPath(ADDR_b) :> CutTail(ObjectFile(STR_tree, <<>>), 3)) },
              fs \in { EmptyFiles,
                       (ObjectPath(ADDR_short) :> ObjectFile(STR_blob, TEXT_fix_more)) } } }

\* The addresses read: aaaa, bbbb, cccc (never stored), "abc", "ab", "".
ReadAddresses == {ADDR_a, ADDR_b, ADDR_c, ADDR_short, SubSeq(ADDR_short, 1, 2), <<>>}

InitRead ==
    /\ objects_dir \in DamagedStores
    /\ puts = EmptyFiles
    /\ ret = [op |-> "init"]
    /\ TreeInit
    /\ CommitIdle
    /\ RepoInit
    /\ GraphIdle
    /\ RaceIdle
    /\ DiffIdle

\* get(address) on this store.
Read(hash) ==
    /\ \E result \in ReadOutcomes(objects_dir, hash) :
          ret' = [op |-> "get", hash |-> hash, result |-> result]
    /\ UNCHANGED <<objects_dir, puts>>
    /\ UNCHANGED <<treeVars, commitVars, repoVars, graphVars, raceVars, diffVars>>

NextRead == \E hash \in ReadAddresses : Read(hash)

SpecRead == InitRead /\ [][NextRead]_vars

\* The text between the first space of the header and its next space or end.
DeclaredLength(header) ==
    LET sp == {i \in 1..Len(header) : header[i] = SP}
        first == CHOOSE i \in sp : \A k \in sp : i <= k
        later == {i \in sp : i > first}
        last == IF later = {} THEN Len(header) + 1
                ELSE CHOOSE i \in later : \A k \in later : i <= k
    IN  IF sp = {} THEN -1 ELSE ParseUsize(SubSeq(header, first + 1, last - 1))

\* data is an object whole: a header ended by a NUL, the length it declares
\* the number of bytes after the NUL, and result that type, length and bytes.
WholeObject(data, result) ==
    /\ \E i \in 1..Len(data) : data[i] = NUL
    /\ LET nul == CHOOSE i \in 1..Len(data) :
                      data[i] = NUL /\ \A k \in 1..(i - 1) : data[k] # NUL
       IN  /\ DeclaredLength(SubSeq(data, 1, nul - 1)) = Len(data) - nul
           /\ result.content = SubSeq(data, nul + 1, Len(data))
           /\ result.size = Len(data) - nul
           /\ result.object_type \o <<SP>>
                = SubSeq(data, 1, Len(result.object_type) + 1)

\* C17: get returns an object only when the address has at least 4
\* characters, an object file exists for it, the file decompresses, the
\* decompressed bytes hold a header-terminating NUL and the declared length
\* equals the number of bytes after that NUL, and the object is those bytes
\* whole; in every other case it returns an error, and an address shorter than
\* 4 characters is rejected whatever the store holds at the path it would name.
C17_GetOnlyWholeObjects ==
    ret.op = "get"
    => /\ ret.result.ok
          => /\ Len(ret.hash) >= 4
             /\ Exists(objects_dir, ObjectPath(ret.hash))
             /\ \E z \in ZlibDecodeOutcomes(objects_dir.files[ObjectPath(ret.hash)]) :
                   z.ok /\ WholeObject(z.data, ret.result)
       /\ Len(ret.hash) < 4 => ret.result = Err("hash too short")
       /\ Len(ret.hash) >= 4 /\ ~Exists(objects_dir, ObjectPath(ret.hash))
          => ret.result = Err("object not found")

\* get of aaaa, whose file decompresses to "blob 5\0abc", returned an error;
\* the store holds an object at the path "abc" would name.
C17_Witness ==
    /\ ret.op = "get"
    /\ ret.hash = ADDR_a
    /\ objects_dir.files[ObjectPath(ADDR_a)] = ZlibEncode(RAW_mismatch)
    /\ ret.result = Err("Size mismatch")
    /\ Exists(objects_dir, ObjectPath(ADDR_short))

(***************************************************************************)
(* Spec: an index that is filled and emptied, tree builds and commits      *)
(***************************************************************************)
\* The entries staged: a root-level file and a file of a directory.
StagedPool ==
    { IndexEntry(PATH_a_txt, HASH_a, 1, 1000),
      IndexEntry(PATH_dir_b_txt, HASH_0020, 2, 1000) }

NextStaged ==
    \/ \E entry \in StagedPool : IndexAddEntry(entry)
    \/ \E path \in DOMAIN index : IndexRemoveEntry(path)
    \/ BuildTree
    \/ Commit(TEXT_initial_commit)

SpecStaged == Init /\ [][NextStaged]_vars

\* C20: with an empty staging index nothing is produced.  A tree build on an
\* index with no entries fails and writes no object; the commit command on an
\* empty index reports that there is nothing to commit, writes no object and
\* leaves HEAD and every ref as they were.
C20_EmptyIndexProducesNothing ==
    /\ [](build.n > 0 /\ DOMAIN build.input = {}
            => ~build.result.ok /\ build.written = <<>>)
    /\ [][DOMAIN index = {} /\ build' # build
            => objects_dir' = objects_dir /\ puts' = puts]_vars
    /\ [][DOMAIN index = {} /\ ret' # ret
            => /\ ret'.op = "commit"
               /\ ret'.status = "nothing to commit"
               /\ objects_dir' = objects_dir
               /\ puts' = puts
               /\ head_file' = head_file
               /\ refs' = refs]_vars

\* After a commit that moved the branch, the index was emptied; a commit then
\* found nothing to commit and a tree build of the empty index failed.
C20_Witness ==
    /\ DOMAIN index = {}
    /\ DOMAIN refs # {}
    /\ ret.op = "commit"
    /\ ret.status = "nothing to commit"
    /\ build.n > 0
    /\ DOMAIN build.input = {}
    /\ ~build.result.ok
    /\ build.written = <<>>

\* C21: the commit command leaves the staging index unchanged: after a
\* commit that succeeded, failed or found nothing to commit, the entries of
\* the index (path, address, size, mtime) are those it had before the command.
C21_CommitKeepsIndex ==
    [][ret'.op = "commit"
         /\ (ret' # ret \/ objects_dir' # objects_dir \/ refs' # refs
               \/ head_file' # head_file)
       => index' = index]_vars

\* A commit of an index of two entries succeeded and moved the branch; the
\* index still holds the two entries.
C21_Witness ==
    /\ ret.op = "commit"
    /\ ret.status = "ok"
    /\ DOMAIN refs # {}
    /\ index = Index_add_entry(Index_add_entry(Index_new,
                   IndexEntry(PATH_a_txt, HASH_a, 1, 1000)),
                   IndexEntry(PATH_dir_b_txt, HASH_0020, 2, 1000))

\* The number of the lines of a text that start with "parent ", up to its
\* first empty line.
ParentLineCount(text) ==
    CHOOSE n \in 0..Len(text) :
        \E header \in {HeaderLines(text)} :
            n = Cardinality({k \in 1..Len(header) : HasPrefix(header[k], STR_parent_sp)})

\* C22: a commit serializes one "parent " line per parent, in the order
\* supplied, between the "tree " line and the "author " line; a root commit
\* serializes no "parent " line; is_merge holds exactly when the commit has at
\* least two parents, is_initial exactly when it has none.
C22_ParentLines ==
    commit_io.stage \in {"serialized", "parsed"} /\ commit_io.commit # NoCommit
    => \E lines \in {Split(commit_io.text, LF)}, n \in {Len(commit_io.commit.parents)},
          count \in {ParentLineCount(commit_io.text)} :
          /\ Len(lines) >= n + 2
          /\ lines[1] = STR_tree_sp \o commit_io.commit.tree
          /\ \A k \in 1..n : lines[k + 1] = STR_parent_sp \o commit_io.commit.parents[k]
          /\ HasPrefix(lines[n + 2], STR_author_sp)
          /\ count = n
          /\ is_merge(commit_io.commit) <=> count >= 2
          /\ is_initial(commit_io.commit) <=> count = 0

\* A merge of 0020... and 0c9f..., in that order, has been serialized.
C22_Witness ==
    /\ commit_io.stage = "serialized"
    /\ commit_io.commit.parents = <<HASH_0020, HASH_0c9f>>
    /\ is_merge(commit_io.commit)
    /\ Split(commit_io.text, LF)[2] = STR_parent_sp \o HASH_0020
    /\ Split(commit_io.text, LF)[3] = STR_parent_sp \o HASH_0c9f

(***************************************************************************)
(* Spec: two processes inside store_object with the same type and content  *)
(***************************************************************************)
\* Mutant: the file is opened for appending.
WriteAt_append(file, bytes) == file \o bytes

\* write_all on a file opened by std::fs::write: the bytes go to the start of
\* the file, over what is there.
WriteAt(file, bytes) == bytes \o SubSeq(file, Len(bytes) + 1, Len(file))

\* One step of a process inside store_object: the process after the step
\* and the store after it.
\*   hash    let hash = hash_content(object_type, content)
\*   mkdir   create_dir_all(&dir)
\*   exists  if !object_path.exists()
\*   create  std::fs::write: the file is created, or emptied when it exists
\*   write   std::fs::write: the compressed bytes are written
\*   return  Ok(hash)
StoreStep(od, object_type, content, pr) ==
    CASE pr.pc = "hash" ->
            [od |-> od,
             pr |-> [pr EXCEPT !.pc = "mkdir", !.hash = hash_content(object_type, content)]]
      [] pr.pc = "mkdir" ->
            [od |-> [od EXCEPT !.dirs = @ \cup {ObjectPath(pr.hash)[1]}],
             pr |-> [pr EXCEPT !.pc = "exists"]]
      [] pr.pc = "exists" ->
            [od |-> od,
             pr |-> [pr EXCEPT !.pc = IF Exists(od, ObjectPath(pr.hash))
                                      THEN "return" ELSE "create"]]
      [] pr.pc = "create" ->
            [od |-> [od EXCEPT !.files = (ObjectPath(pr.hash) :> <<>>) @@ @],
             pr |-> [pr EXCEPT !.pc = "write"]]
      [] pr.pc = "write" ->
            [od |-> [od EXCEPT !.files[ObjectPath(pr.hash)] =
                        WriteAt(@, ZlibEncode(ObjectHeader(object_type, content)
                                                \o content))],
             pr |-> [pr EXCEPT !.pc = "return", !.wrote = TRUE]]
      [] pr.pc = "return" ->
            [od |-> od, pr |-> [pr EXCEPT !.pc = "done", !.ret = pr.hash]]

\* The objects the two processes put: a blob, the empty blob, the empty tree.
RacePool == {<<STR_blob, TEXT_v1>>, <<STR_blob, <<>>>>, <<STR_tree, <<>>>>}

\* The store before: empty, or holding the blob "v1" or the blob "v2".
RaceStores ==
    { [dirs |-> {}, files |-> EmptyFiles],
      store_object([dirs |-> {}, files |-> EmptyFiles], STR_blob, TEXT_v1).od,
      store_object([dirs |-> {}, files |-> EmptyFiles], STR_blob, TEXT_v2).od }

InitRace ==
    /\ objects_dir \in RaceStores
    /\ puts = EmptyFiles
    /\ ret = [op |-> "init"]
    /\ TreeInit
    /\ CommitIdle
    /\ RepoInit
    /\ GraphIdle
    /\ DiffIdle
    /\ \E input \in RacePool :
          race = [object_type |-> input[1], content |-> input[2],
                  before |-> objects_dir,
                  proc |-> [p \in Procs |-> [pc |-> "hash", hash |-> <<>>,
                                             wrote |-> FALSE, ret |-> <<>>]]]

\* Process p takes its next step.
RaceStep(p) ==
    /\ race.proc[p].pc \notin {"idle", "done"}
    /\ \E r \in {StoreStep(objects_dir, race.object_type, race.content, race.proc[p])} :
          /\ objects_dir' = r.od
          /\ race' = [race EXCEPT !.proc[p] = r.pr]
    /\ UNCHANGED <<puts, ret, treeVars, commitVars, repoVars, graphVars, diffVars>>

NextRace == \E p \in Procs : RaceStep(p)

SpecRace == InitRace /\ [][NextRace]_vars

\* C23: two processes that put the same type and content at the same time
\* both return the same address, and when both have returned the store is
\* what one put alone would have left: at that address, exactly the bytes one
\* put writes.
C23_RaceConverges ==
    /\ \A p \in Procs :
          race.proc[p].pc = "done"
          => race.proc[p].ret = hash_content(race.object_type, race.content)
    /\ (\A p \in Procs : race.proc[p].pc = "done")
          => /\ objects_dir = store_object(race.before, race.object_type, race.content).od
             /\ Exists(race.before, ObjectPath(race.proc[1].ret))
                \/ objects_dir.files[ObjectPath(race.proc[1].ret)]
                     = ZlibEncode(ObjectHeader(race.object_type, race.content)
                                    \o race.content)

\* Both processes found no file, both wrote it, and both have returned.
C23_Witness ==
    /\ \A p \in Procs : race.proc[p].pc = "done" /\ race.proc[p].wrote
    /\ race.content = TEXT_v1
    /\ race.before.files = EmptyFiles

(***************************************************************************)
(* Spec: the branch command, commands/branch.rs, as main.rs calls it       *)
(***************************************************************************)
BACKSLASH == 92

NoName == [some |-> FALSE, name |-> <<>>]

SomeName(name) == [some |-> TRUE, name |-> name]

\* get_current_branch: the branch HEAD is attached to, if any.
get_current_branch(head) ==
    IF /\ HasPrefix(Trim(head), STR_ref_colon)
       /\ HasPrefix(Trim(StripPrefix(Trim(head), STR_ref_colon)), STR_refs_heads)
    THEN SomeName(StripPrefix(Trim(StripPrefix(Trim(head), STR_ref_colon)),
                              STR_refs_heads))
    ELSE NoName

\* branch_ref_path, relative to .rit
branch_ref_path(branch_name) == STR_refs_heads \o branch_name

\* create_branch: the status and the ref files after it.
create_branch(head, ref_files, branch_name) ==
    IF branch_name = <<>> THEN [status |-> "err: empty name", refs |-> ref_files]
    ELSE IF \E i \in 1..Len(branch_name) : branch_name[i] \in {SLASH, BACKSLASH, SP}
    THEN [status |-> "err: not a valid branch name", refs |-> ref_files]
    ELSE IF branch_ref_path(branch_name) \in DOMAIN ref_files
    THEN [status |-> "err: already exists", refs |-> ref_files]
    ELSE IF ~read_head(head, ref_files).some
    THEN [status |-> "err: not a valid object name", refs |-> ref_files]
    ELSE [status |-> "ok: created",
          refs |-> (branch_ref_path(branch_name)
                        :> (read_head(head, ref_files).hash \o <<LF>>)) @@ ref_files]

\* delete_branch: the status and the ref files after it.
delete_branch(head, ref_files, branch_name, force) ==
    IF branch_ref_path(branch_name) \notin DOMAIN ref_files
    THEN [status |-> "err: not found", refs |-> ref_files]
    ELSE IF get_current_branch(head) = SomeName(branch_name) /\ ~force
    THEN [status |-> "err: checked out", refs |-> ref_files]
    ELSE IF /\ read_head(head, ref_files).some
            /\ Trim(ref_files[branch_ref_path(branch_name)])
                 # read_head(head, ref_files).hash
            /\ ~force
    THEN [status |-> "err: not fully merged", refs |-> ref_files]
    ELSE [status |-> "ok: deleted",
          refs |-> [r \in DOMAIN ref_files \ {branch_ref_path(branch_name)}
                      |-> ref_files[r]]]

\* branch::run(branch_name, delete, force)
branch_run(head, ref_files, branch_name, delete, force) ==
    IF delete
    THEN IF ~branch_name.some THEN [status |-> "err: name required", refs |-> ref_files]
         ELSE delete_branch(head, ref_files, branch_name.name, force)
    ELSE IF branch_name.some THEN create_branch(head, ref_files, branch_name.name)
    ELSE [status |-> "ok: listed", refs |-> ref_files]

\* "main", "dev", "topic"
NAME_main == <<109, 97, 105, 110>>

NAME_dev == <<100, 101, 118>>

NAME_topic == <<116, 111, 112, 105, 99>>

BranchArgs == {NoName, SomeName(NAME_main), SomeName(NAME_dev), SomeName(NAME_topic),
               SomeName(NAME_a_b)}

\* The branches before: main at aaaa or bbbb; dev absent, at aaaa or at bbbb.
BranchRefsPool ==
    { (branch_ref_path(NAME_main) :> (am \o <<LF>>)) @@ dev :
        am \in {ADDR_a, ADDR_b},
        dev \in { EmptyFiles,
                  (branch_ref_path(NAME_dev) :> (ADDR_a \o <<LF>>)),
                  (branch_ref_path(NAME_dev) :> (ADDR_b \o <<LF>>)) } }

\* HEAD attached to main, or detached at aaaa.
BranchHeadPool == {STR_ref_colon \o STR_refs_heads_main \o <<LF>>, ADDR_a \o <<LF>>}

InitBranch ==
    /\ StoreInit
    /\ TreeInit
    /\ CommitIdle
    /\ GraphIdle
    /\ RaceIdle
    /\ DiffIdle
    /\ index = Index_new
    /\ build = [n |-> 0, input |-> Index_new, written |-> <<>>,
                result |-> Err("no build yet")]
    /\ worktree = EmptyFiles
    /\ head_file \in BranchHeadPool
    /\ refs \in BranchRefsPool

\* rit branch [-d] [-D] [<branch_name>]: main hands the three arguments to
\* branch::run as parsed.
Branch(branch_name, delete, force) ==
    /\ \E r \in {branch_run(head_file, refs, branch_name, delete, force)} :
          /\ refs' = r.refs
          /\ ret' = [op |-> "branch", branch_name |-> branch_name, delete |-> delete,
                     force |-> force, status |-> r.status,
                     existed |-> /\ branch_name.some
                                 /\ branch_ref_path(branch_name.name) \in DOMAIN refs,
                     merged |-> /\ branch_name.some
                                /\ branch_ref_path(branch_name.name) \in DOMAIN refs
                                /\ read_head(head_file, refs).some
                                /\ Trim(refs[branch_ref_path(branch_name.name)])
                                     = read_head(head_file, refs).hash]
    /\ UNCHANGED <<objects_dir, puts, treeVars, commitVars, index, build, worktree,
                   head_file, graphVars, raceVars, diffVars>>

NextBranch ==
    \E branch_name \in BranchArgs, delete \in BOOLEAN, force \in BOOLEAN :
        Branch(branch_name, delete, force)

SpecBranch == InitBranch /\ [][NextBranch]_vars

\* C24: the branch command given a branch name and -D alone (the command the
\* "not fully merged" error names) deletes that branch, also when it is not
\* merged: when the branch existed, pointing at another commit than HEAD, it
\* is gone after the command.
C24_ForceFlagDeletes ==
    /\ ret.op = "branch"
    /\ ret.force
    /\ ~ret.delete
    /\ ret.existed
    /\ ~ret.merged
    => branch_ref_path(ret.branch_name.name) \notin DOMAIN refs

\* No commit of the map is its own ancestor.
RECURSIVE Ancestors(_, _)
Ancestors(commits, from) ==
    IF UNION {Range(commits[x].parents) : x \in from \cap DOMAIN commits} \subseteq from
    THEN from
    ELSE Ancestors(commits, from \cup UNION {Range(commits[x].parents) :
                                                x \in from \cap DOMAIN commits})

IsDag(commits) ==
    \A x \in DOMAIN commits : x \notin Ancestors(commits, Range(commits[x].parents))

\* C25: in the level assignment of the ASCII graph, for every commit DAG and
\* every set of branch heads, each commit has a level strictly smaller than
\* the level of each of its parents.
C25_LevelsOrderAncestors ==
    collect.pc = "drawn" /\ IsDag(collect.commits)
    => \A x \in DOMAIN collect.commits \cap DOMAIN collect.levels :
          \A k \in 1..Len(collect.commits[x].parents) :
              collect.commits[x].parents[k] \in DOMAIN collect.levels
              => collect.levels[x] < collect.levels[collect.commits[x].parents[k]]

(***************************************************************************)
(* Spec: commits one after another on a fresh repository, then log         *)
(***************************************************************************)
MaxHistory == 2

NextHistory ==
    \/ \E entry \in StagedPool : IndexAddEntry(entry)
    \/ \E path \in DOMAIN index : IndexRemoveEntry(path)
    \/ CommitUpTo(TEXT_initial_commit, 2 * MaxHistory, MaxHistory)
    \/ LogRun(FALSE)
    \/ LogStep

SpecHistory == Init /\ [][NextHistory]_vars

\* The addresses of the commits stored.
CommitsMade == {puts[k] : k \in {q \in DOMAIN puts : q[1] = STR_commit}}

\* The parents of the commit stored at an address.
ParentsAt(od, hash) == Commit_parse(read_object(od, hash).content).commit.parents

\* C26: after every successful commit command HEAD resolves to the commit
\* just made, whose parents are exactly what HEAD resolved to before (none
\* when it resolved to nothing); a symbolic HEAD stays as it was and only the
\* branch file it names changes.  So after n commits on a fresh repository
\* the first-parent walk from HEAD yields exactly those n commits, newest
\* first.
C26_CommitAdvancesHead ==
    /\ [][ret'.op = "commit" /\ ret'.status = "ok" /\ ret' # ret
            => /\ read_head(head_file', refs') = [some |-> TRUE, hash |-> ret'.hash]
               /\ read_object(objects_dir', ret'.hash).ok
               /\ read_object(objects_dir', ret'.hash).object_type = STR_commit
               /\ ParentsAt(objects_dir', ret'.hash)
                    = (IF read_head(head_file, refs).some
                       THEN <<read_head(head_file, refs).hash>> ELSE <<>>)
               /\ HasPrefix(head_file, STR_ref_colon)
                  => /\ head_file' = head_file
                     /\ \A r \in DOMAIN refs :
                           r # Trim(StripPrefix(Trim(head_file), STR_ref_colon))
                           => r \in DOMAIN refs' /\ refs'[r] = refs[r]]_vars
    /\ [](walk.pc = "done" /\ walk.start = read_head(head_file, refs).hash
            => /\ walk.status = "ok"
               /\ Len(walk.output) = Cardinality(CommitsMade)
               /\ Range(Yielded(walk)) = CommitsMade
               /\ \A i \in 1..Len(walk.output) :
                     ParentsAt(objects_dir, Yielded(walk)[i])
                       = (IF i < Len(walk.output) THEN <<Yielded(walk)[i + 1]>> ELSE <<>>))

\* Two commits were made and the walk from HEAD, the second one, has yielded
\* both.
C26_Witness ==
    /\ walk.pc = "done"
    /\ Cardinality(CommitsMade) = 2
    /\ Len(walk.output) = 2
    /\ ret.op = "commit"
    /\ ret.status = "ok"
    /\ Yielded(walk)[1] = ret.hash
    /\ read_head(head_file, refs) = [some |-> TRUE, hash |-> ret.hash]

\* The path resolves below the Tree at root, directory entry by directory
\* entry, to a file entry of that address.
ResolvesTo(od, root, path, hash) ==
    \E at \in {Descend(od, root,
                       IF ParentDir(path) = <<>> THEN <<>>
                       ELSE Split(ParentDir(path), SLASH), 1)} :
        /\ at.ok
        /\ TreeAt(od, at.hash).ok
        /\ \E e \in EntrySet(TreeAt(od, at.hash)) :
              /\ ~is_tree(e)
              /\ e.name = Path_file_name(path).name
              /\ e.hash = hash

\* C27: the tree build loses no staged file at any depth: whenever it
\* succeeds, every path of the index resolves from the root Tree returned,
\* segment by segment, to a file entry carrying the address staged for it.
\* Stated for the indexes in which no path is at once a file and a directory.
C27_NoStagedFileLost ==
    ( /\ build.n > 0
      /\ build.result.ok
      /\ DOMAIN build.input \cap AllDirs(build.input) = {} )
    => \A path \in DOMAIN build.input :
          ResolvesTo(objects_dir, build.result.hash, path, build.input[path].hash)

(***************************************************************************)
(* checkout: commands/checkout.rs                                          *)
(***************************************************************************)
\* "HEAD"
STR_HEAD == <<72, 69, 65, 68>>

\* "nope"
NAME_nope == <<110, 111, 112, 101>>

\* char::is_ascii_hexdigit
is_ascii_hexdigit(c) ==
    (c >= 48 /\ c <= 57) \/ (c >= 97 /\ c <= 102) \/ (c >= 65 /\ c <= 70)

\* The working directory holds files; a directory is there while a file is
\* below it.
WtIsDir(wt, p) ==
    p = <<>> \/ \E q \in DOMAIN wt : HasPrefix(q, p \o <<SLASH>>)

\* Path::exists
WtExists(wt, p) == p \in DOMAIN wt \/ WtIsDir(wt, p)

\* No directory on the way to p, p included when inclusive, is a file.
NoFileOnPath(wt, p, inclusive) ==
    /\ \A i \in 1..Len(p) : p[i] = SLASH => SubSeq(p, 1, i - 1) \notin DOMAIN wt
    /\ inclusive => p \notin DOMAIN wt

\* fs::write(path, content): fails on a directory and below a file.
WtWrite(wt, p, content) ==
    IF WtIsDir(wt, p) \/ ~NoFileOnPath(wt, p, FALSE) THEN [ok |-> FALSE, wt |-> wt]
    ELSE [ok |-> TRUE,
          wt |-> [q \in DOMAIN wt \cup {p} |-> IF q = p THEN content ELSE wt[q]]]

\* resolve_reference
resolve_reference(head, ref_files, reference) ==
    IF reference = STR_HEAD
    THEN IF read_head(head, ref_files).some
         THEN [ok |-> TRUE, hash |-> read_head(head, ref_files).hash]
         ELSE [ok |-> FALSE, hash |-> <<>>]
    ELSE IF branch_ref_path(reference) \in DOMAIN ref_files
    THEN [ok |-> TRUE, hash |-> Trim(ref_files[branch_ref_path(reference)])]
    ELSE IF /\ Len(reference) >= 4
            /\ Len(reference) = 40
            /\ \A i \in 1..Len(reference) : is_ascii_hexdigit(reference[i])
    THEN [ok |-> TRUE, hash |-> reference]
    ELSE [ok |-> FALSE, hash |-> <<>>]

\* get_tree_from_commit, given what read_object and Commit::parse returned.
TreeFromParsed(parsed) ==
    IF parsed.status = "ok" THEN [status |-> "ok", tree |-> parsed.commit.tree]
    ELSE [status |-> parsed.status, tree |-> <<>>]

TreeFromObject(object) ==
    IF ~object.ok THEN [status |-> "err", tree |-> <<>>]
    ELSE IF object.object_type # STR_commit THEN [status |-> "err", tree |-> <<>>]
    ELSE TreeFromParsed(Commit_parse(object.content))

get_tree_from_commit(od, commit_hash) == TreeFromObject(read_object(od, commit_hash))

\* write_tree_to_working_dir and its loop over the entries from position k
\* on: the outcome and the working directory left, which keeps what was
\* written before a failure.  The executable bit is not part of the state.
RECURSIVE write_tree_to_working_dir(_, _, _, _, _)
RECURSIVE WriteTreeToDirEntries(_, _, _, _, _, _)
WriteTreeToDirBlob(od, wt, entries, k, base_path, force, entry_path, blob_object) ==
    IF ~blob_object.ok THEN [ok |-> FALSE, wt |-> wt]
    ELSE IF blob_object.object_type # STR_blob THEN [ok |-> FALSE, wt |-> wt]
    ELSE IF WtExists(wt, entry_path) /\ ~force
    THEN WriteTreeToDirEntries(od, wt, entries, k + 1, base_path, force)
    ELSE IF ~WtWrite(wt, entry_path, blob_object.content).ok THEN [ok |-> FALSE, wt |-> wt]
    ELSE WriteTreeToDirEntries(od, WtWrite(wt, entry_path, blob_object.content).wt,
                               entries, k + 1, base_path, force)

WriteTreeToDirSub(od, entries, k, base_path, force, sub) ==
    IF ~sub.ok THEN sub
    ELSE WriteTreeToDirEntries(od, sub.wt, entries, k + 1, base_path, force)

WriteTreeToDirEntries(od, wt, entries, k, base_path, force) ==
    IF k > Len(entries) THEN [ok |-> TRUE, wt |-> wt]
    ELSE IF is_tree(entries[k])
    THEN WriteTreeToDirSub(od, entries, k, base_path, force,
             write_tree_to_working_dir(od, wt, entries[k].hash,
                                       ChildPath(base_path, entries[k].name), force))
    ELSE WriteTreeToDirBlob(od, wt, entries, k, base_path, force,
             ChildPath(base_path, entries[k].name),
             read_object(od, entries[k].hash))

WriteTreeToDirParsed(od, wt, parsed, base_path, force) ==
    IF ~parsed.ok THEN [ok |-> FALSE, wt |-> wt]
    ELSE IF ~WtExists(wt, base_path) /\ ~NoFileOnPath(wt, base_path, TRUE)
    THEN [ok |-> FALSE, wt |-> wt]
    ELSE WriteTreeToDirEntries(od, wt, parsed.entries, 1, base_path, force)

WriteTreeToDirObject(od, wt, object, base_path, force) ==
    IF ~object.ok THEN [ok |-> FALSE, wt |-> wt]
    ELSE IF object.object_type # STR_tree THEN [ok |-> FALSE, wt |-> wt]
    ELSE WriteTreeToDirParsed(od, wt, Tree_parse(object.content), base_path, force)

write_tree_to_working_dir(od, wt, tree_hash, base_path, force) ==
    WriteTreeToDirObject(od, wt, read_object(od, tree_hash), base_path, force)

\* update_head: the HEAD file written.
update_head(head, ref_files, reference, commit_hash) ==
    IF branch_ref_path(reference) \in DOMAIN ref_files
    THEN STR_ref_colon \o STR_refs_heads \o reference \o <<LF>>
    ELSE commit_hash \o <<LF>>

\* checkout_file, from component i of the path on, in the Tree at tree_hash.
\* Neither the Tree nor the blob has its type checked.
RECURSIVE CheckoutFileFrom(_, _, _, _, _, _)
CheckoutFileWrite(wt, file_path, blob_object) ==
    IF ~blob_object.ok THEN [ok |-> FALSE, wt |-> wt]
    ELSE IF ~NoFileOnPath(wt, file_path, FALSE) THEN [ok |-> FALSE, wt |-> wt]
    ELSE WtWrite(wt, file_path, blob_object.content)

CheckoutFileEntry(od, wt, components, i, file_path, found) ==
    IF found = {} THEN [ok |-> FALSE, wt |-> wt]
    ELSE \* the first entry of that name
         LET entry == CHOOSE e \in found : TRUE
         IN  IF i = Len(components)
             THEN IF is_tree(entry) THEN [ok |-> FALSE, wt |-> wt]
                  ELSE CheckoutFileWrite(wt, file_path, read_object(od, entry.hash))
             ELSE IF ~is_tree(entry) THEN [ok |-> FALSE, wt |-> wt]
                  ELSE CheckoutFileFrom(od, wt, entry.hash, components, i + 1, file_path)

CheckoutFileTree(od, wt, parsed, components, i, file_path) ==
    IF ~parsed.ok THEN [ok |-> FALSE, wt |-> wt]
    ELSE CheckoutFileEntry(od, wt, components, i, file_path,
             {parsed.entries[n] : n \in
                 {m \in DOMAIN parsed.entries :
                     /\ parsed.entries[m].name = components[i]
                     /\ \A l \in 1..(m - 1) : parsed.entries[l].name # components[i]}})

CheckoutFileObject(od, wt, object, components, i, file_path) ==
    IF ~object.ok THEN [ok |-> FALSE, wt |-> wt]
    ELSE CheckoutFileTree(od, wt, Tree_parse(object.content), components, i, file_path)

CheckoutFileFrom(od, wt, tree_hash, components, i, file_path) ==
    IF i > Len(components) THEN [ok |-> FALSE, wt |-> wt]
    ELSE CheckoutFileObject(od, wt, read_object(od, tree_hash), components, i, file_path)

\* checkout::run: the status, the commit the reference resolved to, and the
\* working directory and HEAD it leaves.
CheckoutWritten(head, ref_files, reference, commit_hash, written) ==
    IF ~written.ok
    THEN [status |-> "err", hash |-> commit_hash, wt |-> written.wt, head |-> head]
    ELSE [status |-> "ok", hash |-> commit_hash, wt |-> written.wt,
          head |-> update_head(head, ref_files, reference, commit_hash)]

CheckoutFileDone(head, commit_hash, written) ==
    [status |-> IF written.ok THEN "ok" ELSE "err", hash |-> commit_hash,
     wt |-> written.wt, head |-> head]

CheckoutTree(od, wt, head, ref_files, reference, file_path, force, commit_hash, t) ==
    IF t.status # "ok"
    THEN [status |-> t.status, hash |-> commit_hash, wt |-> wt, head |-> head]
    ELSE IF file_path.some
    THEN CheckoutFileDone(head, commit_hash,
             CheckoutFileFrom(od, wt, t.tree, Split(file_path.name, SLASH), 1,
                              file_path.name))
    ELSE CheckoutWritten(head, ref_files, reference, commit_hash,
             write_tree_to_working_dir(od, wt, t.tree, <<>>, force))

CheckoutResolved(od, wt, head, ref_files, reference, file_path, force, resolved) ==
    IF ~resolved.ok THEN [status |-> "err", hash |-> <<>>, wt |-> wt, head |-> head]
    ELSE CheckoutTree(od, wt, head, ref_files, reference, file_path, force,
                      resolved.hash, get_tree_from_commit(od, resolved.hash))

checkout_run(od, wt, head, ref_files, reference, file_path, force) ==
    CheckoutResolved(od, wt, head, ref_files, reference, file_path, force,
                     resolve_reference(head, ref_files, reference))

\* rit checkout [-f] <reference> [<file>]
Checkout(reference, file_path, force) ==
    /\ \E r \in {checkout_run(objects_dir, worktree, head_file, refs, reference,
                              file_path, force)} :
          /\ worktree' = r.wt
          /\ head_file' = r.head
          /\ ret' = [op |-> "checkout", reference |-> reference,
                     file_path |-> file_path, force |-> force,
                     status |-> r.status, hash |-> r.hash,
                     head_before |-> head_file]
    /\ UNCHANGED <<objects_dir, puts, treeVars, commitVars, index, build, refs,
                   graphVars, raceVars, diffVars>>

\* What the user may write into the working directory between checkouts:
\* two versions of a.txt.
CheckoutFilePool == {<<PATH_a_txt, TEXT_v1>>, <<PATH_a_txt, TEXT_v2>>}

\* The references given to checkout: "HEAD", a branch, a name of nothing,
\* the address of every stored commit and an address that is not stored.
CheckoutArgs ==
    {STR_HEAD, NAME_main, NAME_nope, HASH_a}
        \cup CommitsMade

NextCheckout ==
    \/ \E f \in CheckoutFilePool : WriteFile(f[1], f[2])
    \/ Add(PATH_a_txt)
    \/ Commit(TEXT_initial_commit)
    \/ \E reference \in CheckoutArgs, force \in BOOLEAN,
          file_path \in {NoName, SomeName(PATH_a_txt)} :
          Checkout(reference, file_path, force)

SpecCheckout == Init /\ [][NextCheckout]_vars

\* C28: a successful whole-tree checkout of a reference leaves HEAD resolving
\* to the commit the reference resolved to, and a checkout of "HEAD" while
\* HEAD is attached to a branch leaves HEAD attached to that branch; a failed
\* checkout leaves HEAD as it was.
C28_CheckoutKeepsHeadAttached ==
    (ret.op = "checkout" /\ ~ret.file_path.some)
    => /\ ret.status = "ok"
          => /\ read_head(head_file, refs) = [some |-> TRUE, hash |-> ret.hash]
             /\ ( /\ ret.reference = STR_HEAD
                  /\ get_current_branch(ret.head_before).some )
                => get_current_branch(head_file) = get_current_branch(ret.head_before)
       /\ ret.status # "ok" => head_file = ret.head_before

(***************************************************************************)
(* Referential closure of the store under add and commit                   *)
(***************************************************************************)
\* What the user may write into the working directory between the commands:
\* two versions of a.txt, and dir/b.txt.
StagingFilePool == FilePool \cup {<<PATH_a_txt, TEXT_v2>>}

NextAddCommit ==
    \/ \E f \in StagingFilePool : WriteFile(f[1], f[2])
    \/ \E path \in {f[1] : f \in StagingFilePool} : AddUpTo(path, 2 * MaxHistory + 1)
    \/ CommitUpTo(TEXT_initial_commit, 2 * MaxHistory + 1, MaxHistory)

SpecAddCommit == Init /\ [][NextAddCommit]_vars

\* The addresses that hold an object.
StoredAddresses(od) == {p[1] \o p[2] : p \in DOMAIN od.files}

\* The addresses an object names: the entries of a Tree, the tree and the
\* parents of a commit.
ParsedReferences(parsed) ==
    IF parsed.status # "ok" THEN {}
    ELSE {parsed.commit.tree} \cup Range(parsed.commit.parents)

References(object) ==
    IF ~object.ok THEN {}
    ELSE IF object.object_type = STR_tree
    THEN {e.hash : e \in EntrySet(Tree_parse(object.content))}
    ELSE IF object.object_type = STR_commit
    THEN ParsedReferences(Commit_parse(object.content))
    ELSE {}

\* C29: referential closure.  After any sequence of add and commit commands
\* every address recorded in the index, every address an entry of a stored
\* Tree names, and the tree and the parents of every stored commit name an
\* object that is in the store.
C29_ReferentialClosure ==
    \E stored \in {StoredAddresses(objects_dir)} :
        /\ \A path \in DOMAIN index : index[path].hash \in stored
        /\ \A hash \in stored :
              References(read_object(objects_dir, hash)) \subseteq stored

\* A commit with a parent is stored, made from a staged file.
C29_Witness ==
    /\ DOMAIN index # {}
    /\ ret.op = "commit"
    /\ ret.status = "ok"
    /\ ParentsAt(objects_dir, ret.hash) # <<>>
    /\ References(read_object(objects_dir,
           Commit_parse(read_object(objects_dir, ret.hash).content).commit.tree)) # {}

(***************************************************************************)
(* diff: commands/diff.rs, myers_diff                                      *)
(***************************************************************************)
MaxLines == 3

\* How far the loop looks ahead for a match.
LOOKAHEAD == 10

\* The lines of the two texts: "a", "b".
LinePool == {<<97>>, <<98>>}

Keep(line) == [op |-> "Keep", line |-> line]

Delete(line) == [op |-> "Delete", line |-> line]

Insert(line) == [op |-> "Insert", line |-> line]

Min(a, b) == IF a <= b THEN a ELSE b

\* new.iter().map(Insert) and old.iter().map(Delete)
InsertAll(lines) == [l \in 1..Len(lines) |-> Insert(lines[l])]

DeleteAll(lines) == [l \in 1..Len(lines) |-> Delete(lines[l])]

\* The first k of (j + 1)..min(m, j + 10) with old[i] == new[k]; none: -1.
\* Indices count from 0 as in the code.
MatchAheadInNew(old, new, i, j) ==
    LET hits == {k \in (j + 1)..(Min(Len(new), j + LOOKAHEAD) - 1) : old[i + 1] = new[k + 1]}
    IN  IF hits = {} THEN -1 ELSE CHOOSE k \in hits : \A h \in hits : k <= h

\* The first k of (i + 1)..min(n, i + 10) with old[k] == new[j]; none: -1.
MatchAheadInOld(old, new, i, j) ==
    LET hits == {k \in (i + 1)..(Min(Len(old), i + LOOKAHEAD) - 1) : old[k + 1] = new[j + 1]}
    IN  IF hits = {} THEN -1 ELSE CHOOSE k \in hits : \A h \in hits : k <= h

\* Mutant: the lines of new before the match are not inserted.
FoundInNew_dropping(old, new, i, j, edits, k) ==
    [i |-> i + 1, j |-> k + 1, edits |-> Append(edits, Keep(old[i + 1]))]

\* A match ahead in new at k: insert new[j..k), keep old[i].
FoundInNew(old, new, i, j, edits, k) ==
    [i |-> i + 1, j |-> k + 1,
     edits |-> edits \o InsertAll(SubSeq(new, j + 1, k)) \o <<Keep(old[i + 1])>>]

\* A match ahead in old at k: delete old[i..k), keep new[j].
FoundInOld(old, new, i, j, edits, k) ==
    [i |-> k + 1, j |-> j + 1,
     edits |-> edits \o DeleteAll(SubSeq(old, i + 1, k)) \o <<Keep(new[j + 1])>>]

\* The lines at i and j differ.
Mismatch(old, new, i, j, edits, in_new, in_old) ==
    IF in_new >= 0 THEN FoundInNew(old, new, i, j, edits, in_new)
    ELSE IF in_old >= 0 THEN FoundInOld(old, new, i, j, edits, in_old)
    ELSE [i |-> i + 1, j |-> j + 1,
          edits |-> edits \o <<Delete(old[i + 1]), Insert(new[j + 1])>>]

\* One pass of `while i < n || j < m`.
MyersLoopBody(old, new, i, j, edits) ==
    IF i >= Len(old)
    THEN [i |-> i, j |-> j + 1, edits |-> Append(edits, Insert(new[j + 1]))]
    ELSE IF j >= Len(new)
    THEN [i |-> i + 1, j |-> j, edits |-> Append(edits, Delete(old[i + 1]))]
    ELSE IF old[i + 1] = new[j + 1]
    THEN [i |-> i + 1, j |-> j + 1, edits |-> Append(edits, Keep(old[i + 1]))]
    ELSE Mismatch(old, new, i, j, edits, MatchAheadInNew(old, new, i, j),
                  MatchAheadInOld(old, new, i, j))

\* Two texts of up to MaxLines lines are handed to myers_diff.
InitDiff ==
    /\ StoreInit
    /\ TreeInit
    /\ CommitIdle
    /\ RepoInit
    /\ GraphIdle
    /\ RaceIdle
    /\ \E old \in SeqsUpTo(LinePool, MaxLines), new \in SeqsUpTo(LinePool, MaxLines) :
          diff_io = [stage |-> "called", old |-> old, new |-> new, i |-> 0, j |-> 0,
                     edits |-> <<>>]

\* myers_diff up to the loop: the two early returns.
MyersEnter ==
    /\ diff_io.stage = "called"
    /\ diff_io' =
          IF Len(diff_io.old) = 0
          THEN [diff_io EXCEPT !.stage = "returned", !.edits = InsertAll(diff_io.new)]
          ELSE IF Len(diff_io.new) = 0
          THEN [diff_io EXCEPT !.stage = "returned", !.edits = DeleteAll(diff_io.old)]
          ELSE [diff_io EXCEPT !.stage = "loop"]
    /\ UNCHANGED <<storeVars, treeVars, commitVars, repoVars, graphVars, raceVars>>

\* One test of the loop condition: a pass of the body, or the return.
MyersLoop ==
    /\ diff_io.stage = "loop"
    /\ IF diff_io.i < Len(diff_io.old) \/ diff_io.j < Len(diff_io.new)
       THEN \E r \in {MyersLoopBody(diff_io.old, diff_io.new, diff_io.i, diff_io.j,
                                    diff_io.edits)} :
               diff_io' = [diff_io EXCEPT !.i = r.i, !.j = r.j, !.edits = r.edits]
       ELSE diff_io' = [diff_io EXCEPT !.stage = "returned"]
    /\ UNCHANGED <<storeVars, treeVars, commitVars, repoVars, graphVars, raceVars>>

NextDiff == MyersEnter \/ MyersLoop

\* The call runs on: a step that can be taken is taken.
SpecDiff == InitDiff /\ [][NextDiff]_vars /\ WF_vars(NextDiff)

\* The lines of the edits whose operation is in ops, in order.
RECURSIVE LinesOf(_, _)
LinesOf(edits, ops) ==
    IF edits = <<>> THEN <<>>
    ELSE IF Head(edits).op \in ops THEN <<Head(edits).line>> \o LinesOf(Tail(edits), ops)
    ELSE LinesOf(Tail(edits), ops)

\* The edit script agrees with both texts.
Consistent(edits, old, new) ==
    /\ LinesOf(edits, {"Keep", "Delete"}) = old
    /\ LinesOf(edits, {"Keep", "Insert"}) = new
    /\ old = new => \A e \in Range(edits) : e.op = "Keep"

\* C30: for all line sequences old and new, myers_diff terminates and returns
\* an edit script consistent with both: its Keep and Delete lines, in order,
\* are old, its Keep and Insert lines, in order, are new, and every edit is a
\* Keep when old equals new.
C30_DiffConsistent ==
    /\ [](diff_io.stage = "returned"
          => Consistent(diff_io.edits, diff_io.old, diff_io.new))
    /\ <>(diff_io.stage = "returned")

\* A script with the three operations has been returned, a match having been
\* found ahead.
C30_Witness ==
    /\ diff_io.stage = "returned"
    /\ {e.op : e \in Range(diff_io.edits)} = {"Keep", "Delete", "Insert"}
    /\ \E k \in 1..(Len(diff_io.edits) - 1) :
          diff_io.edits[k].op = "Insert" /\ diff_io.edits[k + 1].op = "Keep"

====
